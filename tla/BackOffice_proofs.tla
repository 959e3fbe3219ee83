-------------------------- MODULE BackOffice_proofs --------------------------
(***************************************************************************)
(* Proofs about Records and Catalog for any number of lookups, requests,   *)
(* editors, addresses and SKUs: how stale the enrichment cache can be, who *)
(* can spell one address in two ways, and what the drone shop shows.       *)
(***************************************************************************)
EXTENDS Records, Catalog, TLAPS

(* Records. *)

Spelled == Spellings \cup {CHOOSE e \in Spellings : TRUE}
Answers == [id : Nat, ver : Nat]
CustomerRows == [id : Nat, email : Spellings, ver : Nat, checked : BOOLEAN, began : Nat, ended : Nat]
DraftStates == [busy : BOOLEAN, email : Spelled, began : Nat]
Entries == [email : Spellings, val : SUBSET Answers, expires : Nat]
LookupStates == [at : {"idle", "read", "store"}, email : Spelled, val : SUBSET Answers, began : Nat]
StatusRow(r) ==
    /\ r = [id |-> r.id, kind |-> r.kind, status |-> r.status,
            stamped |-> r.stamped, finished |-> r.finished]
    /\ r.stamped \in BOOLEAN /\ r.finished \in BOOLEAN

CustomersType ==
    /\ customers \subseteq CustomerRows /\ draft \in [Drafts -> DraftStates]
    /\ \A d \in Drafts : draft[d].busy => draft[d].email \in Spellings
    /\ writes \in Nat /\ step \in Nat

CacheType ==
    /\ cached \in [Addresses -> Entries] /\ lookup \in [Lookups -> LookupStates]
    /\ \A l \in Lookups : lookup[l].at # "idle" => lookup[l].email \in Spellings
    /\ changed \in [Spellings -> Nat] /\ now \in Nat

\* What a table C answers.
AnswerIn(C, e) == {[id |-> c.id, ver |-> c.ver] : c \in {d \in C : d.email = e}}

\* No entry outlives its time; one that is wrong was read before the answer
\* changed, by a lookup that had begun shortly before.
Outdated(e) == e.val # AnswerIn(customers, e.email)
EntriesBounded ==
    /\ \A e \in Spellings : changed[e] <= now
    /\ \A a \in Addresses :
          /\ cached[a].expires <= now + CacheTtl
          /\ Outdated(cached[a]) => cached[a].expires <= changed[cached[a].email] + CacheTtl + MaxLookup
    /\ \A l \in Lookups : lookup[l].at # "idle" =>
          /\ lookup[l].began <= now /\ now <= lookup[l].began + MaxLookup
          /\ lookup[l].at = "store" /\ Outdated(lookup[l]) => lookup[l].began <= changed[lookup[l].email]

CacheInv == CacheType /\ EntriesBounded

\* A request that has looked found none of the customers of that address that
\* were inserted before it looked.
DraftsLooked ==
    /\ \A c \in customers : c.checked => c.began < c.ended /\ c.ended <= step
    /\ \A d \in Drafts : draft[d].busy =>
          /\ draft[d].began <= step
          /\ \A c \in customers :
                c.checked /\ c.email.base = draft[d].email.base => draft[d].began < c.ended

RecordsStatus == \A r \in records : StatusRow(r)

RecordsInv ==
    CustomersType /\ CacheInv /\ DraftsLooked /\ SpelledTwiceOnlyByRace
        /\ RecordsStatus /\ CompletionStamped

\* With an address there is a spelling of it.
LEMMA SomeSpelling ==
  /\ \A a \in Addresses : (CHOOSE e \in Spellings : TRUE) \in Spellings
  /\ NoDraft \in DraftStates /\ ~NoDraft.busy
  /\ NoLookup \in LookupStates /\ NoLookup.at = "idle"
  /\ \A a \in Addresses : NoEntry \in Entries /\ NoEntry.expires = 0
  <1>1. ASSUME NEW a \in Addresses PROVE (CHOOSE e \in Spellings : TRUE) \in Spellings
    <2>1. [base |-> a, cased |-> TRUE] \in Spellings
      BY DEF Spellings
    <2> QED BY <2>1
  <1>2. NoDraft \in DraftStates /\ ~NoDraft.busy
    BY DEF NoDraft, DraftStates, Spelled
  <1>3. NoLookup \in LookupStates /\ NoLookup.at = "idle"
    BY DEF NoLookup, LookupStates, Spelled
  <1>4. ASSUME NEW a \in Addresses PROVE NoEntry \in Entries /\ NoEntry.expires = 0
    BY <1>1 DEF NoEntry, Entries
  <1> QED BY <1>1, <1>2, <1>3, <1>4

LEMMA AnswerFacts ==
  /\ \A e : Answer(e) = AnswerIn(customers, e)
  /\ \A e : (Answer(e))' = AnswerIn(customers', e)
  /\ \A e \in Spellings : customers \subseteq CustomerRows => AnswerIn(customers, e) \subseteq Answers
  <1>1. \A e : Answer(e) = AnswerIn(customers, e)
    BY DEF Answer, AnswerIn
  <1>2. \A e : (Answer(e))' = AnswerIn(customers', e)
    BY DEF Answer, AnswerIn
  <1>3. \A e \in Spellings : customers \subseteq CustomerRows => AnswerIn(customers, e) \subseteq Answers
    BY DEF AnswerIn, Answers, CustomerRows
  <1> QED BY <1>1, <1>2, <1>3

LEMMA RecordsInitially == RecordsInit => RecordsInv
  <1> SUFFICES ASSUME RecordsInit PROVE RecordsInv
    OBVIOUS
  <1>1. CustomersType
    BY SomeSpelling DEF RecordsInit, CustomersType
  <1>2. CacheType
    BY SomeSpelling DEF RecordsInit, CacheType
  <1>3. EntriesBounded
    <2>1. \A a \in Addresses : cached[a].expires = 0 /\ cached[a].email \in Spellings
      BY SomeSpelling DEF RecordsInit, Entries
    <2>2. /\ \A e \in Spellings : changed[e] = 0
          /\ \A l \in Lookups : lookup[l].at = "idle"
          /\ now = 0
      BY SomeSpelling DEF RecordsInit
    <2> QED BY <2>1, <2>2, RecordsAssumption DEF EntriesBounded
  <1>4. DraftsLooked /\ SpelledTwiceOnlyByRace /\ RecordsStatus /\ CompletionStamped
    BY SomeSpelling DEF RecordsInit, DraftsLooked, SpelledTwiceOnlyByRace, RecordsStatus, CompletionStamped
  <1> QED BY <1>1, <1>2, <1>3, <1>4 DEF RecordsInv, CacheInv

\* A write of customers moves the time of every answer it changes to now.
LEMMA WriteBounds ==
  ASSUME CacheInv, NEW C, WriteCustomers(C)
  PROVE  CacheInv'
  <1>1. /\ \A e \in Spellings : changed'[e] = IF AnswerIn(customers', e) # AnswerIn(customers, e)
                                              THEN now ELSE changed[e]
        /\ changed' \in [Spellings -> Nat]
        /\ UNCHANGED <<cached, lookup, now>>
    BY AnswerFacts DEF WriteCustomers, cacheVars, CacheInv, CacheType
  <1>2. CacheType'
    BY <1>1 DEF CacheInv, CacheType
  <1>3. \A e \in Spellings : changed'[e] \in {changed[e], now} /\ changed[e] <= changed'[e]
                             /\ changed'[e] \in Nat /\ changed[e] \in Nat /\ changed'[e] <= now
    BY <1>1 DEF CacheInv, CacheType, EntriesBounded
  <1>4. ASSUME NEW a \in Addresses
        PROVE  /\ cached'[a].expires <= now' + CacheTtl
               /\ Outdated(cached[a])' =>
                     cached'[a].expires <= changed'[cached'[a].email] + CacheTtl + MaxLookup
    <2> DEFINE x == cached[a]
    <2>1. x.email \in Spellings /\ x.expires \in Nat /\ x.expires <= now + CacheTtl /\ now \in Nat
      BY DEF CacheInv, CacheType, Entries, EntriesBounded
    <2>2. x.val # AnswerIn(customers, x.email) => x.expires <= changed[x.email] + CacheTtl + MaxLookup
      BY DEF CacheInv, EntriesBounded, Outdated
    <2>3. x.val # AnswerIn(customers', x.email) => x.expires <= changed'[x.email] + CacheTtl + MaxLookup
      BY <1>1, <1>3, <2>1, <2>2, RecordsAssumption
    <2> QED BY <1>1, <2>1, <2>3 DEF Outdated
  <1>5. ASSUME NEW l \in Lookups, lookup'[l].at # "idle"
        PROVE  /\ lookup'[l].began <= now' /\ now' <= lookup'[l].began + MaxLookup
               /\ lookup'[l].at = "store" /\ Outdated(lookup[l])' =>
                     lookup'[l].began <= changed'[lookup'[l].email]
    <2> DEFINE x == lookup[l]
    <2>1. x.at # "idle" /\ x.email \in Spellings /\ x.began \in Nat /\ now \in Nat
      BY <1>1, <1>5 DEF CacheInv, CacheType, LookupStates
    <2>2. /\ x.began <= now /\ now <= x.began + MaxLookup
          /\ x.at = "store" /\ x.val # AnswerIn(customers, x.email) => x.began <= changed[x.email]
      BY <2>1 DEF CacheInv, EntriesBounded, Outdated
    <2>3. x.at = "store" /\ x.val # AnswerIn(customers', x.email) => x.began <= changed'[x.email]
      BY <1>1, <1>3, <2>1, <2>2
    <2> QED BY <1>1, <2>2, <2>3 DEF Outdated
  <1>6. EntriesBounded'
    BY <1>1, <1>3, <1>4, <1>5 DEF EntriesBounded
  <1> QED BY <1>2, <1>6 DEF CacheInv

\* A customer is inserted with an address nobody has, by create_customer or by
\* the simulation after its look; or one is updated.
LEMMA CustomerAdded ==
  ASSUME RecordsInv, NEW c \in CustomerRows,
         c.checked => c.began < c.ended /\ c.ended <= step',
         \A d \in customers : c.checked /\ d.checked /\ c.email.base = d.email.base => c.began < d.ended,
         \A d \in Drafts : draft'[d].busy /\ c.checked /\ c.email.base = draft'[d].email.base
                             => draft'[d].began < c.ended,
         \A d \in customers : d.checked /\ c.checked => d.began < c.ended,
         \A d \in Drafts : draft'[d].busy => draft[d].busy /\ draft'[d] = draft[d],
         draft' \in [Drafts -> DraftStates], step' \in Nat, step <= step',
         WriteCustomers(customers \cup {c})
  PROVE  RecordsInv'
  <1>1. customers' = customers \cup {c} /\ writes' = writes + 1 /\ records' = records
    BY DEF WriteCustomers
  <1>2. CacheInv'
    BY WriteBounds DEF RecordsInv
  <1>3. CustomersType'
    BY <1>1 DEF RecordsInv, CustomersType
  <1>4. step \in Nat /\ \A d \in customers : d.ended \in Nat /\ d.began \in Nat
    BY DEF RecordsInv, CustomersType, CustomerRows
  <1>5. \A d \in Drafts : draft[d].began \in Nat
    BY DEF RecordsInv, CustomersType, DraftStates
  <1>6. DraftsLooked'
    BY <1>1, <1>4, <1>5 DEF RecordsInv, DraftsLooked
  <1>7. SpelledTwiceOnlyByRace'
    BY <1>1 DEF RecordsInv, SpelledTwiceOnlyByRace
  <1>8. RecordsStatus' /\ CompletionStamped'
    BY <1>1 DEF RecordsInv, RecordsStatus, CompletionStamped
  <1> QED BY <1>2, <1>3, <1>6, <1>7, <1>8 DEF RecordsInv

LEMMA CustomerStep ==
  ASSUME RecordsInv, WriteNext \/ DraftNext
  PROVE  RecordsInv'
  <1>0. /\ customers \subseteq CustomerRows /\ draft \in [Drafts -> DraftStates]
        /\ writes \in Nat /\ step \in Nat
    BY DEF RecordsInv, CustomersType
  <1>1. ASSUME NEW e \in Spellings, CreateCustomer(e) PROVE RecordsInv'
    <2> DEFINE c == [id |-> writes + 1, email |-> e, ver |-> writes + 1,
                     checked |-> FALSE, began |-> 0, ended |-> 0]
    <2>1. c \in CustomerRows /\ ~c.checked
      BY <1>0 DEF CustomerRows
    <2>2. WriteCustomers(customers \cup {c}) /\ draft' = draft /\ step' = step
      BY <1>1 DEF CreateCustomer
    <2> HIDE DEF c
    <2> QED BY <1>0, <2>1, <2>2, CustomerAdded
  <1>2. ASSUME NEW d \in Drafts, InsertCustomer(d) PROVE RecordsInv'
    <2> DEFINE e == draft[d].email
               c == [id |-> writes + 1, email |-> e, ver |-> writes + 1,
                     checked |-> TRUE, began |-> draft[d].began, ended |-> step + 1]
    <2>1. draft[d].busy /\ step' = step + 1 /\ WriteCustomers(customers \cup {c})
          /\ draft' = [draft EXCEPT ![d] = NoDraft]
      BY <1>2 DEF InsertCustomer
    <2>2. e \in Spellings /\ draft[d].began \in Nat /\ draft[d].began <= step
      BY <1>0, <2>1 DEF RecordsInv, CustomersType, DraftsLooked, DraftStates
    <2>3. c \in CustomerRows /\ c.email = e /\ c.began = draft[d].began /\ c.ended = step + 1
      BY <1>0, <2>2 DEF CustomerRows
    <2> HIDE DEF c
    <2>4. /\ draft' \in [Drafts -> DraftStates]
          /\ \A x \in Drafts : draft'[x].busy => draft[x].busy /\ draft'[x] = draft[x]
      BY <1>0, <2>1, SomeSpelling
    <2>5. /\ \A x \in customers : x.checked /\ c.email.base = x.email.base => c.began < x.ended
          /\ \A x \in customers : x.checked => x.began < x.ended /\ x.ended <= step
          /\ \A x \in Drafts : draft[x].busy => draft[x].began <= step
      BY <2>1, <2>3 DEF RecordsInv, DraftsLooked
    <2>6. /\ \A x \in customers : x.ended \in Nat /\ x.began \in Nat
          /\ \A x \in Drafts : draft[x].began \in Nat
      BY <1>0 DEF CustomerRows, DraftStates
    <2>7. /\ \A x \in customers : x.checked => x.began < c.ended
          /\ \A x \in Drafts : draft'[x].busy => draft'[x].began < c.ended
      BY <1>0, <2>3, <2>4, <2>5, <2>6
    <2>8. c.began < c.ended /\ c.ended <= step' /\ step' \in Nat /\ step <= step'
      BY <1>0, <2>1, <2>2, <2>3
    <2> QED BY <2>1, <2>3, <2>4, <2>5, <2>7, <2>8, CustomerAdded
  <1>3. ASSUME NEW d \in Drafts, NEW e \in Spellings, CheckCustomer(d, e) PROVE RecordsInv'
    <2>1. /\ NotThere(e) /\ step' = step + 1
          /\ draft' = [draft EXCEPT ![d] = [busy |-> TRUE, email |-> e, began |-> step + 1]]
          /\ UNCHANGED <<customers, writes, cached, lookup, changed, now, records>>
      BY <1>3 DEF CheckCustomer, cacheVars
    <2>2. [busy |-> TRUE, email |-> e, began |-> step + 1] \in DraftStates
      BY <1>0 DEF DraftStates, Spelled
    <2>3. /\ draft' \in [Drafts -> DraftStates] /\ draft'[d].email = e /\ draft'[d].began = step + 1
          /\ \A x \in Drafts \ {d} : draft'[x] = draft[x]
      BY <1>0, <2>1, <2>2
    <2>4. CustomersType'
      BY <1>0, <2>1, <2>3 DEF RecordsInv, CustomersType
    <2>5. /\ \A x \in customers : x.ended \in Nat
          /\ \A x \in Drafts : draft[x].began \in Nat
      BY <1>0 DEF CustomerRows, DraftStates
    <2>6. \A x \in customers : x.email.base # e.base
      BY <2>1 DEF NotThere
    <2>7. \A x \in Drafts : draft'[x].busy =>
             /\ draft'[x].began <= step'
             /\ \A c \in customers' :
                   c.checked /\ c.email.base = draft'[x].email.base => draft'[x].began < c.ended
      BY <1>0, <2>1, <2>3, <2>5, <2>6 DEF RecordsInv, DraftsLooked
    <2>8. \A c \in customers' : c.checked => c.began < c.ended /\ c.ended <= step'
      BY <1>0, <2>1, <2>5 DEF RecordsInv, DraftsLooked
    <2>9. CacheInv' /\ SpelledTwiceOnlyByRace' /\ RecordsStatus' /\ CompletionStamped'
      BY <2>1 DEF RecordsInv, CacheInv, CacheType, EntriesBounded, Outdated, AnswerIn,
                  SpelledTwiceOnlyByRace, RecordsStatus, CompletionStamped
    <2> QED BY <2>4, <2>7, <2>8, <2>9 DEF RecordsInv, DraftsLooked
  <1>4. ASSUME NEW d \in Drafts, InsertFails(d) PROVE RecordsInv'
    <2>1. /\ draft' = [draft EXCEPT ![d] = NoDraft]
          /\ UNCHANGED <<customers, writes, step, cached, lookup, changed, now, records>>
      BY <1>4 DEF InsertFails, cacheVars
    <2>2. CustomersType' /\ DraftsLooked'
      BY <1>0, <2>1, SomeSpelling DEF RecordsInv, CustomersType, DraftsLooked
    <2>3. CacheInv' /\ SpelledTwiceOnlyByRace' /\ RecordsStatus' /\ CompletionStamped'
      BY <2>1 DEF RecordsInv, CacheInv, CacheType, EntriesBounded, Outdated, AnswerIn,
                  SpelledTwiceOnlyByRace, RecordsStatus, CompletionStamped
    <2> QED BY <2>2, <2>3 DEF RecordsInv
  <1>5. ASSUME NEW e \in Spellings, NEW c \in customers, UpdateCustomer(c, e) PROVE RecordsInv'
    <2> DEFINE u == [c EXCEPT !.email = e, !.ver = writes + 1, !.checked = @ /\ e = c.email]
    <2>1. WriteCustomers((customers \ {c}) \cup {u}) /\ draft' = draft /\ step' = step
      BY <1>5 DEF UpdateCustomer
    <2>2. c \in CustomerRows
      BY <1>0
    <2>3. /\ u \in CustomerRows /\ u.began = c.began /\ u.ended = c.ended
          /\ u.checked => c.checked /\ u.email = c.email
      <3> DEFINE k == c.checked /\ e = c.email
      <3>1. u = [c EXCEPT !.email = e, !.ver = writes + 1, !.checked = k] /\ writes + 1 \in Nat
        BY <1>0, <2>2 DEF CustomerRows
      <3>2. k \in BOOLEAN /\ (k => c.checked /\ e = c.email)
        BY <2>2 DEF CustomerRows
      <3> HIDE DEF k, u
      <3>3. /\ u \in CustomerRows /\ u.began = c.began /\ u.ended = c.ended
            /\ u.email = e /\ u.checked = k
        BY <2>2, <3>1, <3>2 DEF CustomerRows
      <3> QED BY <3>2, <3>3
    <2> HIDE DEF u
    <2>4. /\ customers' = (customers \ {c}) \cup {u} /\ writes' = writes + 1 /\ records' = records
      BY <2>1 DEF WriteCustomers
    <2>5. CacheInv'
      BY <2>1, WriteBounds DEF RecordsInv
    <2>6. CustomersType'
      BY <1>0, <2>1, <2>3, <2>4 DEF RecordsInv, CustomersType
    <2>7. DraftsLooked'
      BY <2>1, <2>3, <2>4 DEF RecordsInv, DraftsLooked
    <2>8. SpelledTwiceOnlyByRace'
      BY <2>3, <2>4 DEF RecordsInv, SpelledTwiceOnlyByRace
    <2>9. RecordsStatus' /\ CompletionStamped'
      BY <2>4 DEF RecordsInv, RecordsStatus, CompletionStamped
    <2> QED BY <2>5, <2>6, <2>7, <2>8, <2>9 DEF RecordsInv
  <1> QED BY <1>1, <1>2, <1>3, <1>4, <1>5 DEF WriteNext, DraftNext

\* A step of the cache leaves the tables alone.
LEMMA CacheOnly ==
  ASSUME RecordsInv, CacheInv', UNCHANGED <<customers, draft, writes, step, records>>
  PROVE  RecordsInv'
  BY DEF RecordsInv, CustomersType, DraftsLooked, SpelledTwiceOnlyByRace, RecordsStatus, CompletionStamped

\* A lookup goes on, or ends, as x.
LEMMA LookupMoves ==
  ASSUME CacheInv, NEW l \in Lookups, NEW x \in LookupStates, lookup' = [lookup EXCEPT ![l] = x],
         UNCHANGED <<customers, changed, now>>, cached' = cached,
         x.at # "idle" =>
            /\ x.email \in Spellings /\ x.began <= now /\ now <= x.began + MaxLookup
            /\ x.at = "store" => x.val = AnswerIn(customers, x.email)
  PROVE  CacheInv'
  <1>1. /\ lookup' \in [Lookups -> LookupStates] /\ lookup'[l] = x
        /\ \A k \in Lookups \ {l} : lookup'[k] = lookup[k]
    BY DEF CacheInv, CacheType
  <1>2. CacheType'
    BY <1>1 DEF CacheInv, CacheType
  <1>3. \A k \in Lookups : lookup'[k].at # "idle" =>
          /\ lookup'[k].began <= now /\ now <= lookup'[k].began + MaxLookup
          /\ lookup'[k].at = "store" /\ lookup'[k].val # AnswerIn(customers, lookup'[k].email)
                => lookup'[k].began <= changed[lookup'[k].email]
    BY <1>1 DEF CacheInv, EntriesBounded, Outdated
  <1>4. EntriesBounded'
    BY <1>1, <1>3 DEF CacheInv, EntriesBounded, Outdated
  <1> QED BY <1>2, <1>4 DEF CacheInv

\* An entry is set to x.
LEMMA EntrySet ==
  ASSUME CacheInv, NEW a \in Addresses, NEW x \in Entries, cached' = [cached EXCEPT ![a] = x],
         UNCHANGED <<customers, changed, now>>, lookup' = lookup,
         x.expires <= now + CacheTtl,
         Outdated(x) => x.expires <= changed[x.email] + CacheTtl + MaxLookup
  PROVE  CacheInv'
  <1>1. /\ cached' \in [Addresses -> Entries] /\ cached'[a] = x
        /\ \A b \in Addresses \ {a} : cached'[b] = cached[b]
    BY DEF CacheInv, CacheType
  <1>2. CacheType'
    BY <1>1 DEF CacheInv, CacheType
  <1>3. EntriesBounded'
    BY <1>1 DEF CacheInv, EntriesBounded, Outdated
  <1> QED BY <1>2, <1>3 DEF CacheInv

LEMMA CacheStep ==
  ASSUME RecordsInv, CacheNext
  PROVE  RecordsInv'
  <1>0. /\ CacheInv /\ cached \in [Addresses -> Entries] /\ lookup \in [Lookups -> LookupStates]
        /\ changed \in [Spellings -> Nat] /\ now \in Nat /\ customers \subseteq CustomerRows
    BY DEF RecordsInv, CacheInv, CacheType, CustomersType
  <1>1. ASSUME NEW l \in Lookups, NEW e \in Spellings, Miss(l, e) PROVE RecordsInv'
    <2> DEFINE x == [at |-> "read", email |-> e, val |-> {}, began |-> now]
    <2>1. /\ x \in LookupStates /\ x.email = e /\ x.began = now /\ x.at = "read"
          /\ now <= now + MaxLookup /\ now <= now
      BY <1>0, RecordsAssumption DEF LookupStates, Spelled
    <2> HIDE DEF x
    <2>2. CacheInv'
      <3>1. lookup' = [lookup EXCEPT ![l] = x] /\ UNCHANGED <<customers, changed, now>> /\ cached' = cached
        BY <1>1 DEF Miss, customerVars, x
      <3> QED BY <1>0, <2>1, <3>1, LookupMoves
    <2> QED BY <1>1, <2>2, CacheOnly DEF Miss, customerVars
  <1>2. ASSUME NEW l \in Lookups, FindInDb(l) PROVE RecordsInv'
    <2> DEFINE A == AnswerIn(customers, lookup[l].email)
               x == [lookup[l] EXCEPT !.at = "store", !.val = A]
    <2>1. lookup[l] \in LookupStates /\ lookup[l].at = "read" /\ lookup[l].email \in Spellings
      BY <1>0, <1>2 DEF FindInDb, CacheInv, CacheType
    <2>2. A \in SUBSET Answers
      BY <1>0, <2>1, AnswerFacts
    <2>3. lookup' = [lookup EXCEPT ![l] = x]
      BY <1>0, <1>2, AnswerFacts DEF FindInDb
    <2> HIDE DEF A
    <2>4. /\ x \in LookupStates /\ x.at = "store" /\ x.email = lookup[l].email
          /\ x.began = lookup[l].began /\ x.val = A
      BY <2>1, <2>2 DEF LookupStates
    <2>5. x.began <= now /\ now <= x.began + MaxLookup
      BY <1>0, <2>1, <2>4 DEF CacheInv, EntriesBounded
    <2>6. UNCHANGED <<customers, draft, writes, step, cached, changed, now, records>>
      BY <1>2 DEF FindInDb, customerVars
    <2> HIDE DEF x
    <2>7. CacheInv'
      BY <1>0, <2>1, <2>3, <2>4, <2>5, <2>6, LookupMoves DEF A
    <2> QED BY <2>6, <2>7, CacheOnly
  <1>3. ASSUME NEW l \in Lookups, StoreAnswer(l) PROVE RecordsInv'
    <2> DEFINE a == lookup[l].email.base
               x == [email |-> lookup[l].email, val |-> lookup[l].val, expires |-> now + CacheTtl]
    <2>1. /\ lookup[l] \in LookupStates /\ lookup[l].at = "store" /\ lookup[l].email \in Spellings
          /\ cached' = [cached EXCEPT ![a] = x] /\ lookup' = [lookup EXCEPT ![l] = NoLookup]
          /\ UNCHANGED <<customers, draft, writes, step, changed, now, records>>
      BY <1>0, <1>3 DEF StoreAnswer, NewEntry, customerVars, CacheInv, CacheType
    <2>2. a \in Addresses /\ x \in Entries /\ x.expires <= now + CacheTtl
      BY <1>0, <2>1, RecordsAssumption DEF Spellings, LookupStates, Entries
    <2>3. Outdated(x) => x.expires <= changed[x.email] + CacheTtl + MaxLookup
      <3>1. Outdated(x) => lookup[l].began <= changed[lookup[l].email]
        BY <1>0, <2>1 DEF CacheInv, EntriesBounded, Outdated
      <3>2. now <= lookup[l].began + MaxLookup /\ lookup[l].began \in Nat
        BY <1>0, <2>1 DEF CacheInv, EntriesBounded, LookupStates
      <3>3. changed[lookup[l].email] \in Nat
        BY <1>0, <2>1
      <3> QED BY <1>0, <3>1, <3>2, <3>3, RecordsAssumption
    <2> HIDE DEF x, a
    <2>4. /\ cached' \in [Addresses -> Entries] /\ lookup' \in [Lookups -> LookupStates]
          /\ cached'[a] = x /\ \A b \in Addresses \ {a} : cached'[b] = cached[b]
          /\ lookup'[l].at = "idle" /\ \A k \in Lookups \ {l} : lookup'[k] = lookup[k]
      BY <1>0, <2>1, <2>2, SomeSpelling
    <2>5. CacheType'
      BY <1>0, <2>1, <2>4 DEF CacheInv, CacheType
    <2>6. \A b \in Addresses :
            /\ cached'[b].expires <= now + CacheTtl
            /\ Outdated(cached'[b]) => cached'[b].expires <= changed[cached'[b].email] + CacheTtl + MaxLookup
      BY <1>0, <2>2, <2>3, <2>4 DEF CacheInv, EntriesBounded
    <2>7. \A k \in Lookups : lookup'[k].at # "idle" =>
            /\ lookup'[k].began <= now /\ now <= lookup'[k].began + MaxLookup
            /\ lookup'[k].at = "store" /\ Outdated(lookup'[k])
                  => lookup'[k].began <= changed[lookup'[k].email]
      BY <1>0, <2>4 DEF CacheInv, EntriesBounded
    <2>8. EntriesBounded'
      BY <1>0, <2>1, <2>6, <2>7 DEF CacheInv, EntriesBounded, Outdated
    <2> QED BY <2>1, <2>5, <2>8, CacheOnly DEF CacheInv
  <1>4. ASSUME NEW l \in Lookups, LookupEnds(l) PROVE RecordsInv'
    <2>1. CacheInv'
      BY <1>0, <1>4, SomeSpelling, LookupMoves DEF LookupEnds, customerVars
    <2> QED BY <1>4, <2>1, CacheOnly DEF LookupEnds, customerVars
  <1>5. ASSUME NEW a \in Addresses, InvalidateCustomerCache(a) PROVE RecordsInv'
    <2>1. NoEntry \in Entries /\ NoEntry.expires = 0 /\ changed[NoEntry.email] \in Nat
      BY <1>0, SomeSpelling DEF Entries
    <2>2. NoEntry.expires <= now + CacheTtl
          /\ NoEntry.expires <= changed[NoEntry.email] + CacheTtl + MaxLookup
      BY <1>0, <2>1, RecordsAssumption
    <2>3. CacheInv'
      BY <1>0, <1>5, <2>1, <2>2, EntrySet DEF InvalidateCustomerCache, customerVars
    <2> QED BY <1>5, <2>3, CacheOnly DEF InvalidateCustomerCache, customerVars
  <1>6. CASE Tick
    <2>1. /\ now' = now + 1 /\ \A l \in Lookups : lookup[l].at # "idle" => now < lookup[l].began + MaxLookup
          /\ UNCHANGED <<customers, draft, writes, step, cached, lookup, changed, records>>
      BY <1>6 DEF Tick, customerVars, cacheVars
    <2>2. CacheType'
      BY <1>0, <2>1 DEF CacheInv, CacheType
    <2>3. \A l \in Lookups : lookup[l].began \in Nat
      BY <1>0 DEF LookupStates
    <2>4. \A a \in Addresses : cached[a].expires \in Nat
      BY <1>0 DEF Entries
    <2>5. EntriesBounded'
      BY <1>0, <2>1, <2>3, <2>4, RecordsAssumption DEF CacheInv, EntriesBounded, Outdated, AnswerIn
    <2> QED BY <2>1, <2>2, <2>5, CacheOnly DEF CacheInv
  <1> QED BY <1>1, <1>2, <1>3, <1>4, <1>5, <1>6 DEF CacheNext

\* A row with its status, stamp and history set.
LEMMA StatusSet ==
  ASSUME NEW r, StatusRow(r), NEW status, NEW sd \in BOOLEAN, NEW fd \in BOOLEAN, fd => sd
  PROVE  LET q == [r EXCEPT !.status = status, !.stamped = sd, !.finished = fd]
         IN  StatusRow(q) /\ (q.finished => q.stamped)
  <1> DEFINE q1 == [r EXCEPT !.status = status]
             q2 == [q1 EXCEPT !.stamped = sd]
             q == [q2 EXCEPT !.finished = fd]
  <1>1. q1 = [id |-> r.id, kind |-> r.kind, status |-> status, stamped |-> r.stamped, finished |-> r.finished]
    BY DEF StatusRow
  <1> HIDE DEF q1
  <1>2. q2 = [id |-> r.id, kind |-> r.kind, status |-> status, stamped |-> sd, finished |-> r.finished]
    BY <1>1
  <1> HIDE DEF q2
  <1>3. q = [id |-> r.id, kind |-> r.kind, status |-> status, stamped |-> sd, finished |-> fd]
    BY <1>2
  <1>4. q = [r EXCEPT !.status = status, !.stamped = sd, !.finished = fd]
    BY DEF q1, q2
  <1> HIDE DEF q
  <1>5. StatusRow(q) /\ (q.finished => q.stamped)
    BY <1>3 DEF StatusRow
  <1> QED BY <1>4, <1>5

\* The other records; none of their steps touches a customer or the cache.
LEMMA StatusStep ==
  ASSUME RecordsInv, StatusNext
  PROVE  RecordsInv'
  <1>0. RecordsStatus /\ CompletionStamped
    BY DEF RecordsInv
  <1>1. ASSUME UNCHANGED <<customerVars, cacheVars, changed, now>>, RecordsStatus', CompletionStamped'
        PROVE  RecordsInv'
    BY <1>1 DEF RecordsInv, customerVars, cacheVars, CustomersType, DraftsLooked, SpelledTwiceOnlyByRace,
                CacheInv, CacheType, EntriesBounded, Outdated, AnswerIn
  <1>2. ASSUME NEW kind, InsertRecord(kind) PROVE RecordsInv'
    <2> DEFINE r == [id |-> Cardinality(records) + 1, kind |-> kind, status |-> Begins[kind],
                     stamped |-> FALSE, finished |-> FALSE]
    <2>1. records' = records \cup {r} /\ UNCHANGED <<customerVars, cacheVars, changed, now>>
      BY <1>2 DEF InsertRecord
    <2>2. StatusRow(r) /\ ~r.finished
      BY DEF StatusRow
    <2> HIDE DEF r
    <2>3. RecordsStatus' /\ CompletionStamped'
      BY <1>0, <2>1, <2>2 DEF RecordsStatus, CompletionStamped
    <2> QED BY <1>1, <2>1, <2>3
  <1>3. ASSUME NEW r \in records, NEW status, SetStatus(r, status) PROVE RecordsInv'
    <2> DEFINE sd == Stamp(r, status)
               fd == r.finished \/ status = Final[r.kind]
               q == [r EXCEPT !.status = status, !.stamped = sd, !.finished = fd]
    <2>1. StatusRow(r) /\ (r.finished => r.stamped)
      BY <1>0 DEF RecordsStatus, CompletionStamped
    <2>2. sd \in BOOLEAN /\ fd \in BOOLEAN /\ (fd => sd)
      BY <2>1 DEF Stamp
    <2>3. records' = (records \ {r}) \cup {q} /\ UNCHANGED <<customerVars, cacheVars, changed, now>>
      BY <1>3, <2>1 DEF SetStatus, StatusRow
    <2> HIDE DEF sd, fd
    <2>6. StatusRow(q) /\ (q.finished => q.stamped)
      BY <2>1, <2>2, StatusSet
    <2> HIDE DEF q
    <2>7. RecordsStatus' /\ CompletionStamped'
      BY <1>0, <2>3, <2>6 DEF RecordsStatus, CompletionStamped
    <2> QED BY <1>1, <2>3, <2>7
  <1>4. ASSUME NEW r \in records, PayInvoice(r) PROVE RecordsInv'
    <2> DEFINE q == [r EXCEPT !.status = "paid"]
    <2>1. records' = (records \ {r}) \cup {q}
      BY <1>4 DEF PayInvoice
    <2>2. StatusRow(r) /\ (r.finished => r.stamped)
      BY <1>0 DEF RecordsStatus, CompletionStamped
    <2>3. StatusRow(q) /\ (q.finished => q.stamped)
      BY <2>2 DEF StatusRow
    <2> HIDE DEF q
    <2>4. RecordsStatus' /\ CompletionStamped'
      BY <1>0, <2>1, <2>3 DEF RecordsStatus, CompletionStamped
    <2> QED BY <1>1, <1>4, <2>4 DEF PayInvoice
  <1> QED BY <1>2, <1>3, <1>4
          DEF StatusNext, CreateTicket, CreateShipment, CreateCampaign, CreateLead, CreateReport,
              SeedInvoice, UpdateShipmentStatus, UpdateLeadStatus

LEMMA RecordsStep == RecordsInv /\ [RecordsNext]_recordVars => RecordsInv'
  <1> SUFFICES ASSUME RecordsInv, [RecordsNext]_recordVars PROVE RecordsInv'
    OBVIOUS
  <1>1. CASE UNCHANGED recordVars
    <2>1. UNCHANGED <<customers, draft, writes, step, cached, lookup, changed, now, records>>
      BY <1>1 DEF recordVars, customerVars, cacheVars
    <2>2. CacheInv'
      BY <2>1 DEF RecordsInv, CacheInv, CacheType, EntriesBounded, Outdated, AnswerIn
    <2> QED BY <2>1, <2>2, CacheOnly
  <1> QED BY <1>1, CustomerStep, CacheStep, StatusStep DEF RecordsNext

\* "TTL-based cache means staleness is already bounded": an entry of the
\* enrichment cache that is live and wrong became wrong less than the time to
\* live and the time of one lookup ago.
THEOREM StalenessBounded == RecordsSpec => []StaleAtMostTtl
  <1>1. RecordsInv => StaleAtMostTtl
    <2> SUFFICES ASSUME RecordsInv, NEW a \in Addresses, LiveEntry(a),
                        cached[a].val # Answer(cached[a].email)
                 PROVE  now < changed[cached[a].email] + CacheTtl + MaxLookup
      BY DEF StaleAtMostTtl
    <2>1. Outdated(cached[a])
      BY AnswerFacts DEF Outdated
    <2>2. cached[a].expires <= changed[cached[a].email] + CacheTtl + MaxLookup
      BY <2>1 DEF RecordsInv, CacheInv, EntriesBounded
    <2>3. cached[a].expires \in Nat /\ now \in Nat /\ changed[cached[a].email] \in Nat
      BY DEF RecordsInv, CacheInv, CacheType, Entries
    <2> QED BY <2>2, <2>3, RecordsAssumption DEF LiveEntry
  <1> QED BY <1>1, RecordsInitially, RecordsStep, PTL DEF RecordsSpec

\* Two customers of create-customer have addresses that differ in case only if
\* each of their requests looked before the other had inserted.
THEOREM DuplicatesRaced == RecordsSpec => []SpelledTwiceOnlyByRace
  <1>1. RecordsInv => SpelledTwiceOnlyByRace
    BY DEF RecordsInv
  <1> QED BY <1>1, RecordsInitially, RecordsStep, PTL DEF RecordsSpec

\* A shipment or lead that was ever delivered or converted keeps the time of it.
THEOREM CompletionsDated == RecordsSpec => []CompletionStamped
  <1>1. RecordsInv => CompletionStamped
    BY DEF RecordsInv
  <1> QED BY <1>1, RecordsInitially, RecordsStep, PTL DEF RecordsSpec

-----------------------------------------------------------------------------
(* Catalog. *)

ProductRows == [id : Nat, sku : Skus, ver : Nat, active : BOOLEAN, shop : Nat]
ShopRows == [id : Nat, slug : Slugs]
EditStates == [at : {"idle", "update", "archive", "delete"},
               loaded : SUBSET ProductRows, new : SUBSET ProductRows]

\* What the drone shop should have for a product.
Value(p) == [ver |-> p.ver, active |-> p.active]

\* An edit has one product as it was loaded, and the same as it is to be.
EditOf(x) ==
    x.at # "idle" =>
        \E p, q \in ProductRows :
            /\ x.loaded = {p} /\ x.new = {q} /\ q.id = p.id
            /\ (x.at # "update" => q = [p EXCEPT !.active = FALSE])

PushOf(m) ==
    /\ m.action \in {"upsert", "deactivate"}
    /\ m.action = "deactivate" => \A v \in m.views : ~v.active

IdsApart(P, n) == (\A p, q \in P : p.id = q.id => p = q) /\ (\A p \in P : p.id <= n)

CatalogType ==
    /\ products \subseteq ProductRows /\ changes \in Nat /\ opened \in Nat /\ IdsApart(products, changes)
    /\ shops \subseteq ShopRows
    /\ edit \in [Editors -> EditStates] /\ \A e \in Editors : EditOf(edit[e])
    /\ \A m \in wire : PushOf(m)
    /\ \A b \in SkuBases : copy[b] = [ver |-> copy[b].ver, active |-> copy[b].active]
    /\ exact \in BOOLEAN /\ clean \in BOOLEAN

\* A push under way says what the rows P say.
Agrees(P, m) ==
    IF m.action = "upsert" THEN \A v \in m.views : \E p \in P : v = View(p)
    ELSE \A v \in m.views, p \in P : p.sku.base = v.key => ~p.active

\* Its arrival at the copy c will show the product p.
Settles(c, m, p) ==
    IF m.action = "upsert" THEN View(p) \in m.views
    ELSE (\E v \in m.views : v.key = p.sku.base) /\ c[p.sku.base].ver = p.ver /\ ~p.active

\* While nothing blurs the copy, every product that was ever pushed is shown or a
\* push under way will show it, and no push under way says anything else.
ExactInv ==
    exact =>
        /\ ~Collision(products)
        /\ \A m \in wire : Agrees(products, m)
        /\ \A p \in products :
              p.id \in silent \/ copy[p.sku.base] = Value(p) \/ \E m \in wire : Settles(copy, m, p)

\* Nothing is sold that is not here, or a push under way will end it.
CleanInv ==
    clean =>
        /\ exact
        /\ \A b \in SkuBases : copy[b].active =>
              \/ \E p \in products : p.sku.base = b /\ p.active
              \/ \E m \in wire : \E v \in m.views : v.key = b /\ ~v.active

CatalogInv == CatalogType /\ ExactInv /\ CleanInv

LEMMA OnlyOne == ASSUME NEW x PROVE Only({x}) = x
  BY DEF Only

LEMMA RowFields ==
  ASSUME NEW p \in ProductRows
  PROVE  /\ p.id \in Nat /\ p.sku \in Skus /\ p.sku.base \in SkuBases /\ p.ver \in Nat
         /\ p.active \in BOOLEAN /\ p.shop \in Nat
         /\ View(p).key = p.sku.base /\ View(p).active = p.active /\ View(p).ver = p.ver
         /\ View(p).id = p.id
         /\ [p EXCEPT !.active = FALSE] \in ProductRows
         /\ [p EXCEPT !.active = FALSE].id = p.id /\ [p EXCEPT !.active = FALSE].sku = p.sku
         /\ [p EXCEPT !.active = FALSE].ver = p.ver /\ ~[p EXCEPT !.active = FALSE].active
  BY DEF ProductRows, Skus, View

\* Two products with one view are two spellings of a SKU: without a collision
\* the view tells which product it is of.
LEMMA OneView ==
  ASSUME NEW P, ~Collision(P), NEW p \in P, NEW q \in P, p.sku.base = q.sku.base
  PROVE  p = q
  BY DEF Collision

LEMMA NoEditFacts == NoEdit \in EditStates /\ EditOf(NoEdit)
  BY DEF NoEdit, EditStates, EditOf

LEMMA CatalogInitially == CatalogInit => CatalogInv
  <1> SUFFICES ASSUME CatalogInit PROVE CatalogInv
    OBVIOUS
  <1> DEFINE seeded == {Unpushed(i, Seeds[i], 1) : i \in DOMAIN Seeds}
  <1>1. CASE /\ products = {} /\ shops = {} /\ changes = 0 /\ opened = 0
    <2>1. CatalogType
      BY <1>1, NoEditFacts DEF CatalogInit, CatalogType, IdsApart, Absent
    <2>2. ExactInv /\ CleanInv
      BY <1>1 DEF CatalogInit, ExactInv, CleanInv, Collision, Absent
    <2> QED BY <2>1, <2>2 DEF CatalogInv
  <1>2. ASSUME products = seeded, changes = Len(Seeds), opened = 1,
               NEW slug \in Slugs, shops = {[id |-> 1, slug |-> slug]}
        PROVE  CatalogInv
    <2>0. /\ Seeds \in Seq(SkuBases) /\ Len(Seeds) \in Nat /\ DOMAIN Seeds = 1..Len(Seeds)
          /\ \A i, j \in DOMAIN Seeds : Seeds[i] = Seeds[j] => i = j
          /\ \A i \in DOMAIN Seeds : Seeds[i] \in SkuBases
      BY CatalogAssumption
    <2>1. ASSUME NEW i \in DOMAIN Seeds
          PROVE  LET p == Unpushed(i, Seeds[i], 1)
                 IN  p \in ProductRows /\ p.id = i /\ p.id <= Len(Seeds) /\ p.sku.base = Seeds[i]
      BY <2>0 DEF Unpushed, ProductRows, Skus
    <2>2. products \subseteq ProductRows /\ IdsApart(products, changes)
      BY <1>2, <2>1 DEF IdsApart
    <2>3. ~Collision(products)
      BY <1>2, <2>0, <2>1 DEF Collision
    <2>4. CatalogType
      BY <1>2, <2>0, <2>2, NoEditFacts DEF CatalogInit, CatalogType, ShopRows, Absent
    <2>5. ExactInv /\ CleanInv
      BY <2>3 DEF CatalogInit, ExactInv, CleanInv, Absent
    <2> QED BY <2>4, <2>5 DEF CatalogInv
  <1> QED BY <1>1, <1>2 DEF CatalogInit

\* A step that is about edits, orders or shops only.
LEMMA CatalogQuiet ==
  ASSUME CatalogInv, UNCHANGED <<products, wire, copy, silent, exact, clean>>,
         changes' \in Nat, changes <= changes', opened' \in Nat, shops' \subseteq ShopRows,
         edit' \in [Editors -> EditStates], \A e \in Editors : EditOf(edit'[e])
  PROVE  CatalogInv'
  <1>1. \A p \in products : p.id \in Nat
    BY DEF CatalogInv, CatalogType, ProductRows
  <1>2. IdsApart(products, changes')
    BY <1>1 DEF CatalogInv, CatalogType, IdsApart
  <1>3. CatalogType'
    BY <1>2 DEF CatalogInv, CatalogType, EditOf
  <1>4. ExactInv' /\ CleanInv'
    BY DEF CatalogInv, ExactInv, CleanInv
  <1> QED BY <1>3, <1>4 DEF CatalogInv

\* One edit changes.
LEMMA EditSet ==
  ASSUME CatalogInv, NEW e \in Editors, NEW x \in EditStates, EditOf(x), edit' = [edit EXCEPT ![e] = x]
  PROVE  edit' \in [Editors -> EditStates] /\ \A f \in Editors : EditOf(edit'[f])
  <1>1. edit \in [Editors -> EditStates] /\ \A f \in Editors : EditOf(edit[f])
    BY DEF CatalogInv, CatalogType
  <1>2. edit' \in [Editors -> EditStates] /\ edit'[e] = x /\ \A f \in Editors \ {e} : edit'[f] = edit[f]
    BY <1>1
  <1> QED BY <1>1, <1>2

\* Products change and the product x is pushed.  If nothing blurs that, the push
\* says what the rows now say, and all that changed is what it says.
LEMMA ChangePushed ==
  ASSUME CatalogInv, NEW x \in ProductRows, NEW action \in {"upsert", "deactivate"},
         action = "deactivate" => ~x.active,
         products' \subseteq ProductRows, changes' = changes + 1, IdsApart(products', changes'),
         edit' \in [Editors -> EditStates], \A e \in Editors : EditOf(edit'[e]),
         copy' = copy, shops' = shops, opened' = opened,
         \A i \in silent : i \in silent' \/ (action = "upsert" /\ i = x.id),
         Push(action, {x}), NEW stale, NEW renamed, Blur(stale, renamed),
         exact /\ wire = {} /\ ~stale /\ ~Collision(products') =>
            /\ IF action = "upsert" THEN x \in products'
               ELSE \A p \in products' : p.sku.base = x.sku.base => ~p.active
            /\ \A p \in products' :
                  \/ p \in products
                  \/ action = "upsert" /\ p = x
                  \/ /\ action = "deactivate" /\ p.sku.base = x.sku.base /\ ~p.active
                     /\ \E q \in products : q.id = p.id /\ q.sku = p.sku /\ q.ver = p.ver,
         exact /\ wire = {} /\ ~stale /\ ~renamed /\ ~Collision(products') =>
            \A q \in products : q.active =>
                \/ \E p \in products' : p.sku.base = q.sku.base /\ p.active
                \/ q.sku.base = x.sku.base /\ ~x.active
  PROVE  CatalogInv'
  <1> DEFINE m == [n |-> changes', action |-> action, views |-> {View(p) : p \in {x}}]
  <1>1. wire' = wire \cup {m}
    BY DEF Push
  <1>2. m.action = action /\ m.views = {View(x)}
    OBVIOUS
  <1> HIDE DEF m
  <1>3. View(x).key = x.sku.base /\ View(x).active = x.active
    BY RowFields
  <1>4. /\ exact' = (exact /\ ~(wire # {} \/ stale \/ Collision(products')))
        /\ clean' = (clean /\ ~(wire # {} \/ stale \/ Collision(products')) /\ ~renamed)
    BY DEF Blur
  <1>5. CatalogType'
    <2>1. PushOf(m)
      BY <1>2, <1>3 DEF PushOf
    <2>2. exact' \in BOOLEAN /\ clean' \in BOOLEAN
      BY <1>4
    <2> QED BY <1>1, <2>1, <2>2 DEF CatalogInv, CatalogType
  <1>6. ASSUME exact'
        PROVE  /\ ~Collision(products') /\ \A k \in wire' : Agrees(products', k)
               /\ \A p \in products' :
                     p.id \in silent' \/ copy'[p.sku.base] = Value(p) \/ \E k \in wire' : Settles(copy', k, p)
    <2>1. exact /\ wire = {} /\ ~stale /\ ~Collision(products')
      BY <1>4, <1>6
    <2>2. wire' = {m}
      BY <1>1, <2>1
    <2>3. \A p \in products : p.id \in silent \/ copy[p.sku.base] = Value(p)
      BY <2>1 DEF CatalogInv, ExactInv
    <2>4. Agrees(products', m)
      BY <1>2, <1>3, <2>1 DEF Agrees
    <2>5. ASSUME NEW p \in products', p.id \notin silent'
          PROVE  copy[p.sku.base] = Value(p) \/ Settles(copy, m, p)
      <3>0. p.id \in silent => action = "upsert" /\ p = x
        BY <2>1, <2>5 DEF IdsApart
      <3>1. CASE p \in products /\ p.id \notin silent
        BY <2>3, <3>1
      <3>2. CASE action = "upsert" /\ p = x
        BY <1>2, <3>2 DEF Settles
      <3>3. ASSUME action = "deactivate", p.sku.base = x.sku.base, ~p.active,
                   NEW q \in products, q.id = p.id, q.sku = p.sku, q.ver = p.ver
            PROVE  Settles(copy, m, p)
        <4>0. copy[q.sku.base] = Value(q) /\ Value(q).ver = q.ver
          BY <2>3, <3>0, <3>3 DEF Value
        <4>1. copy[p.sku.base].ver = p.ver
          BY <3>3, <4>0
        <4> QED BY <1>2, <1>3, <3>3, <4>1 DEF Settles
      <3> QED BY <2>1, <3>0, <3>1, <3>2, <3>3
    <2> QED BY <2>1, <2>2, <2>4, <2>5
  <1>7. ExactInv'
    BY <1>6 DEF ExactInv
  <1>8. ASSUME clean'
        PROVE  /\ exact'
               /\ \A b \in SkuBases : copy'[b].active =>
                     \/ \E p \in products' : p.sku.base = b /\ p.active
                     \/ \E k \in wire' : \E v \in k.views : v.key = b /\ ~v.active
    <2>1. clean /\ exact /\ wire = {} /\ ~stale /\ ~renamed /\ ~Collision(products')
      BY <1>4, <1>8 DEF CatalogInv, CleanInv
    <2>2. exact'
      BY <1>4, <2>1
    <2>3. ASSUME NEW b \in SkuBases, copy[b].active
          PROVE  \/ \E p \in products' : p.sku.base = b /\ p.active
                 \/ View(x).key = b /\ ~View(x).active
      <3>1. PICK q \in products : q.sku.base = b /\ q.active
        BY <2>1, <2>3 DEF CatalogInv, CleanInv
      <3> QED BY <1>3, <2>1, <3>1
    <2> QED BY <1>1, <1>2, <2>2, <2>3
  <1>9. CleanInv'
    BY <1>8 DEF CleanInv
  <1> QED BY <1>5, <1>7, <1>9 DEF CatalogInv

LEMMA CreateStep ==
  ASSUME CatalogInv, NEW sku \in Skus, NEW active \in BOOLEAN, NEW shop \in Nat,
         CreateProduct(sku, active, shop)
  PROVE  CatalogInv'
  <1> DEFINE p == [id |-> changes + 1, sku |-> sku, ver |-> changes + 1, active |-> active, shop |-> shop]
  <1>0. /\ products \subseteq ProductRows /\ changes \in Nat /\ IdsApart(products, changes)
        /\ edit \in [Editors -> EditStates] /\ \A e \in Editors : EditOf(edit[e])
    BY DEF CatalogInv, CatalogType
  <1>1. p \in ProductRows /\ p.id = changes + 1
    BY <1>0 DEF ProductRows
  <1>2. /\ changes' = changes + 1 /\ products' = products \cup {p} /\ copy' = copy /\ shops' = shops
        /\ edit' = edit /\ opened' = opened /\ silent' = silent
        /\ Push("upsert", {p}) /\ Blur(FALSE, FALSE)
    BY DEF CreateProduct
  <1> HIDE DEF p
  <1>3. \A q \in products : q.id \in Nat
    BY <1>0 DEF ProductRows
  <1>4. products' \subseteq ProductRows /\ IdsApart(products', changes')
    BY <1>0, <1>1, <1>2, <1>3 DEF IdsApart
  <1>5. \A e \in Editors : EditOf(edit'[e])
    BY <1>0, <1>2
  <1> QED BY <1>0, <1>1, <1>2, <1>4, <1>5, ChangePushed

\* A product that comes without a push need not be shown; pushes under way are
\* about other SKUs.
LEMMA AutoCreateStep ==
  ASSUME CatalogInv, NEW base \in SkuBases, AutoCreateProduct(base)
  PROVE  CatalogInv'
  <1> DEFINE p == Unpushed(changes + 1, base, 0)
             blurred == Collision(products') \/ \E m \in wire : \E v \in m.views : v.key = base
  <1>0. /\ products \subseteq ProductRows /\ changes \in Nat /\ IdsApart(products, changes)
    BY DEF CatalogInv, CatalogType
  <1>1. p \in ProductRows /\ p.id = changes + 1 /\ p.sku.base = base
    BY <1>0 DEF ProductRows, Unpushed, Skus
  <1>2. /\ changes' = changes + 1 /\ products' = products \cup {p} /\ silent' = silent \cup {p.id}
        /\ exact' = (exact /\ ~blurred) /\ clean' = (clean /\ ~blurred)
        /\ UNCHANGED <<shops, edit, wire, copy, opened>>
    BY DEF AutoCreateProduct
  <1> HIDE DEF p
  <1>3. \A q \in products : q.id \in Nat
    BY <1>0 DEF ProductRows
  <1>4. products' \subseteq ProductRows /\ IdsApart(products', changes')
    BY <1>0, <1>1, <1>2, <1>3 DEF IdsApart
  <1>5. CatalogType'
    BY <1>2, <1>4 DEF CatalogInv, CatalogType
  <1>6. ASSUME exact'
        PROVE  /\ ~Collision(products') /\ \A m \in wire : Agrees(products', m)
               /\ \A q \in products' :
                     q.id \in silent' \/ copy[q.sku.base] = Value(q) \/ \E m \in wire : Settles(copy, m, q)
    <2>1. exact /\ ~Collision(products') /\ \A m \in wire : \A v \in m.views : v.key # base
      BY <1>2, <1>6
    <2>2. \A m \in wire : Agrees(products', m)
      <3> SUFFICES ASSUME NEW m \in wire PROVE Agrees(products', m)
        OBVIOUS
      <3>1. Agrees(products, m)
        BY <2>1 DEF CatalogInv, ExactInv
      <3>2. CASE m.action = "upsert"
        BY <1>2, <3>1, <3>2 DEF Agrees
      <3>3. CASE m.action # "upsert"
        BY <1>1, <1>2, <2>1, <3>1, <3>3 DEF Agrees
      <3> QED BY <3>2, <3>3
    <2>3. ASSUME NEW q \in products', q.id \notin silent'
          PROVE  copy[q.sku.base] = Value(q) \/ \E m \in wire : Settles(copy, m, q)
      <3>1. q \in products /\ q.id \notin silent
        BY <1>2, <2>3
      <3> QED BY <2>1, <3>1 DEF CatalogInv, ExactInv
    <2> QED BY <2>1, <2>2, <2>3
  <1>7. ExactInv'
    BY <1>2, <1>6 DEF ExactInv
  <1>8. CleanInv'
    <2> SUFFICES ASSUME clean'
                 PROVE  /\ exact'
                        /\ \A b \in SkuBases : copy[b].active =>
                              \/ \E q \in products' : q.sku.base = b /\ q.active
                              \/ \E m \in wire : \E v \in m.views : v.key = b /\ ~v.active
      BY <1>2 DEF CleanInv
    <2>1. clean /\ ~blurred
      BY <1>2
    <2>2. exact'
      BY <1>2, <2>1 DEF CatalogInv, CleanInv
    <2> HIDE DEF blurred
    <2> QED BY <1>2, <2>1, <2>2 DEF CatalogInv, CleanInv
  <1> QED BY <1>5, <1>7, <1>8 DEF CatalogInv

\* The merged row keeps the id; when nothing was changed since the row was
\* loaded it is the request.
LEMMA MergeFacts ==
  ASSUME NEW row \in ProductRows, NEW loaded \in ProductRows, NEW new \in ProductRows
  PROVE  /\ Merge(row, loaded, new) \in ProductRows
         /\ new.id = loaded.id => Merge(row, loaded, new).id = row.id
         /\ row = loaded => Merge(row, loaded, new) = new
  <1> DEFINE pick(c) == IF new[c] # loaded[c] THEN new[c] ELSE row[c]
  <1>1. Merge(row, loaded, new) = [c \in {"id", "sku", "ver", "active", "shop"} |-> pick(c)]
    BY DEF Merge, ProductRows
  <1>2. /\ pick("id") \in Nat /\ pick("sku") \in Skus /\ pick("ver") \in Nat
        /\ pick("active") \in BOOLEAN /\ pick("shop") \in Nat
    BY DEF ProductRows
  <1>3. [c \in {"id", "sku", "ver", "active", "shop"} |-> pick(c)]
           = [id |-> pick("id"), sku |-> pick("sku"), ver |-> pick("ver"),
              active |-> pick("active"), shop |-> pick("shop")]
    OBVIOUS
  <1>4. row = loaded => /\ pick("id") = new.id /\ pick("sku") = new.sku /\ pick("ver") = new.ver
                        /\ pick("active") = new.active /\ pick("shop") = new.shop
    OBVIOUS
  <1>5. new.id = loaded.id => pick("id") = row.id
    OBVIOUS
  <1>6. new = [id |-> new.id, sku |-> new.sku, ver |-> new.ver, active |-> new.active, shop |-> new.shop]
    BY DEF ProductRows
  <1> HIDE DEF pick
  <1>7. Merge(row, loaded, new) \in ProductRows /\ Merge(row, loaded, new).id = pick("id")
    BY <1>1, <1>2, <1>3 DEF ProductRows
  <1>8. row = loaded => Merge(row, loaded, new) = new
    BY <1>1, <1>3, <1>4, <1>6
  <1> QED BY <1>5, <1>7, <1>8

\* The row with an id.
LEMMA CurrentRow ==
  ASSUME CatalogInv, NEW id, Current(id) # {}
  PROVE  /\ Only(Current(id)) \in products /\ Only(Current(id)).id = id
         /\ \A p \in products : p.id = id => p = Only(Current(id))
  <1>1. PICK p \in products : p.id = id
    BY DEF Current
  <1>2. \A q \in products : q.id = id => q = p
    BY <1>1 DEF CatalogInv, CatalogType, IdsApart
  <1>3. Current(id) = {p}
    BY <1>1, <1>2 DEF Current
  <1> QED BY <1>1, <1>2, <1>3, OnlyOne

\* What an edit under way has loaded.
LEMMA EditRows ==
  ASSUME CatalogInv, NEW e \in Editors, edit[e].at # "idle"
  PROVE  LET loaded == Only(edit[e].loaded)
             new == Only(edit[e].new)
         IN  /\ loaded \in ProductRows /\ new \in ProductRows /\ new.id = loaded.id
             /\ edit[e].loaded = {loaded} /\ edit[e].new = {new}
             /\ edit[e].at # "update" => new = [loaded EXCEPT !.active = FALSE]
  <1>1. EditOf(edit[e])
    BY DEF CatalogInv, CatalogType
  <1>2. PICK p, q \in ProductRows :
            /\ edit[e].loaded = {p} /\ edit[e].new = {q} /\ q.id = p.id
            /\ (edit[e].at # "update" => q = [p EXCEPT !.active = FALSE])
    BY <1>1 DEF EditOf
  <1>3. Only(edit[e].loaded) = p /\ Only(edit[e].new) = q
    BY <1>2, OnlyOne
  <1> QED BY <1>2, <1>3

\* Nothing but an edit ends.
LEMMA EditEnds ==
  ASSUME CatalogInv, NEW e \in Editors, edit' = [edit EXCEPT ![e] = NoEdit],
         UNCHANGED <<products, shops, wire, copy, changes, opened, silent, exact, clean>>
  PROVE  CatalogInv'
  <1>1. edit' \in [Editors -> EditStates] /\ \A f \in Editors : EditOf(edit'[f])
    BY NoEditFacts, EditSet
  <1>2. changes' \in Nat /\ changes <= changes' /\ opened' \in Nat /\ shops' \subseteq ShopRows
    BY DEF CatalogInv, CatalogType
  <1> QED BY <1>1, <1>2, CatalogQuiet

LEMMA UpdateStep ==
  ASSUME CatalogInv, NEW e \in Editors, UpdateProduct(e)
  PROVE  CatalogInv'
  <1> DEFINE loaded == Only(edit[e].loaded)
             asked == Only(edit[e].new)
             new == [asked EXCEPT !.ver = changes + 1]
             row == Only(Current(loaded.id))
             merged == Merge(row, loaded, new)
             told == silent \ {loaded.id}
             fits == /\ Current(loaded.id) # {}
                     /\ SkuFree(merged.sku, loaded.id) /\ ShopExists(merged.shop)
  <1>0. /\ products \subseteq ProductRows /\ changes \in Nat /\ IdsApart(products, changes)
        /\ edit \in [Editors -> EditStates] /\ shops \subseteq ShopRows
        /\ opened \in Nat
    BY DEF CatalogInv, CatalogType
  <1>1. /\ edit[e].at = "update" /\ edit' = [edit EXCEPT ![e] = NoEdit]
        /\ UNCHANGED <<shops, copy, opened>>
        /\ \/ /\ fits /\ changes' = changes + 1 /\ products' = (products \ {row}) \cup {merged}
              /\ silent' = told
              /\ Push("upsert", {new}) /\ Blur(row # loaded, new.sku.base # loaded.sku.base)
           \/ /\ changes' = changes + 1 /\ products' = products /\ silent' = told
              /\ Push("upsert", {loaded}) /\ Blur(loaded \notin products, FALSE)
           \/ UNCHANGED <<products, wire, changes, silent, exact, clean>>
    BY DEF UpdateProduct
  <1>2. loaded \in ProductRows /\ asked \in ProductRows /\ asked.id = loaded.id
    BY <1>1, EditRows
  <1> HIDE DEF loaded, asked
  <1>3. new \in ProductRows /\ new.id = loaded.id
    BY <1>0, <1>2 DEF ProductRows
  <1>4. edit' \in [Editors -> EditStates] /\ \A f \in Editors : EditOf(edit'[f])
    BY <1>1, NoEditFacts, EditSet
  <1>5. ASSUME fits, changes' = changes + 1, products' = (products \ {row}) \cup {merged}, silent' = told,
               Push("upsert", {new}), Blur(row # loaded, new.sku.base # loaded.sku.base)
        PROVE  CatalogInv'
    <2>1. row \in products /\ row.id = loaded.id /\ row \in ProductRows
      BY <1>0, <1>5, CurrentRow
    <2> HIDE DEF new, row
    <2>2. merged \in ProductRows /\ merged.id = row.id /\ (row = loaded => merged = new)
      BY <1>2, <1>3, <2>1, MergeFacts
    <2> HIDE DEF merged, fits
    <2>4. \A p \in products : p.id \in Nat
      BY <1>0 DEF ProductRows
    <2>5. products' \subseteq ProductRows /\ IdsApart(products', changes')
      BY <1>0, <1>5, <2>1, <2>2, <2>4 DEF IdsApart
    <2>6. ~(row # loaded) => new \in products' /\ \A p \in products' : p \in products \/ p = new
      BY <1>5, <2>2
    <2>7. ~(row # loaded) /\ ~(new.sku.base # loaded.sku.base) =>
             \A q \in products : q.active =>
                \/ \E p \in products' : p.sku.base = q.sku.base /\ p.active
                \/ q.sku.base = new.sku.base /\ ~new.active
      BY <1>5, <2>2
    <2>8. \A i \in silent : i \in silent' \/ i = new.id
      BY <1>3, <1>5
    <2> QED BY <1>1, <1>3, <1>4, <1>5, <2>5, <2>6, <2>7, <2>8, ChangePushed
  <1>6. ASSUME changes' = changes + 1, products' = products, silent' = told,
               Push("upsert", {loaded}), Blur(loaded \notin products, FALSE)
        PROVE  CatalogInv'
    <2>1. \A p \in products : p.id \in Nat
      BY <1>0 DEF ProductRows
    <2>2. products' \subseteq ProductRows /\ IdsApart(products', changes')
      BY <1>0, <1>6, <2>1 DEF IdsApart
    <2>3. \A i \in silent : i \in silent' \/ i = loaded.id
      BY <1>6
    <2> QED BY <1>1, <1>2, <1>4, <1>6, <2>2, <2>3, ChangePushed
  <1>7. CASE UNCHANGED <<products, wire, changes, silent, exact, clean>>
    <2>1. /\ edit' = [edit EXCEPT ![e] = NoEdit]
          /\ UNCHANGED <<products, shops, wire, copy, changes, opened, silent, exact, clean>>
      BY <1>1, <1>7
    <2> QED BY <2>1, EditEnds
  <1> QED BY <1>1, <1>5, <1>6, <1>7

LEMMA ArchiveStep ==
  ASSUME CatalogInv, NEW e \in Editors, ArchiveProduct(e)
  PROVE  CatalogInv'
  <1> DEFINE loaded == Only(edit[e].loaded)
             x == Only(edit[e].new)
             row == Only(Current(loaded.id))
             done == [row EXCEPT !.active = FALSE]
  <1>0. /\ products \subseteq ProductRows /\ changes \in Nat /\ IdsApart(products, changes)
    BY DEF CatalogInv, CatalogType
  <1>1. /\ edit[e].at = "archive" /\ edit' = [edit EXCEPT ![e] = NoEdit]
        /\ UNCHANGED <<shops, copy, opened, silent>>
        /\ \/ /\ loaded.active => Current(loaded.id) # {}
              /\ changes' = changes + 1
              /\ products' = IF loaded.active THEN (products \ {row}) \cup {done} ELSE products
              /\ PushInactive(e) /\ Blur(loaded \notin products, FALSE)
           \/ UNCHANGED <<products, wire, changes, exact, clean>>
    BY DEF ArchiveProduct
  <1>2. /\ loaded \in ProductRows /\ x = [loaded EXCEPT !.active = FALSE]
        /\ edit[e].new = {x}
    BY <1>1, EditRows
  <1> HIDE DEF loaded, x
  <1>3. x \in ProductRows /\ x.sku = loaded.sku /\ ~x.active
    BY <1>2, RowFields
  <1>4. edit' \in [Editors -> EditStates] /\ \A f \in Editors : EditOf(edit'[f])
    BY <1>1, NoEditFacts, EditSet
  <1>5. ASSUME loaded.active => Current(loaded.id) # {}, changes' = changes + 1,
               products' = IF loaded.active THEN (products \ {row}) \cup {done} ELSE products,
               PushInactive(e), Blur(loaded \notin products, FALSE)
        PROVE  CatalogInv'
    <2>1. Push("deactivate", {x})
      BY <1>2, <1>5 DEF PushInactive
    <2>2. loaded.active => /\ row \in products /\ row \in ProductRows /\ row.id = loaded.id
                           /\ \A p \in products : p.id = loaded.id => p = row
      BY <1>0, <1>5, CurrentRow
    <2> HIDE DEF row
    <2>3. loaded.active => /\ done \in ProductRows /\ done.id = row.id /\ done.sku = row.sku
                           /\ done.ver = row.ver /\ ~done.active
      BY <2>2, RowFields
    <2> HIDE DEF done
    <2>4. \A p \in products : p.id \in Nat
      BY <1>0 DEF ProductRows
    <2>5. products' \subseteq ProductRows /\ IdsApart(products', changes')
      BY <1>0, <1>5, <2>2, <2>3, <2>4 DEF IdsApart
    <2>6. ASSUME exact, wire = {}, loaded \in products, ~Collision(products')
          PROVE  /\ \A p \in products' : p.sku.base = x.sku.base => ~p.active
                 /\ \A p \in products' :
                       \/ p \in products
                       \/ /\ p.sku.base = x.sku.base /\ ~p.active
                          /\ \E q \in products : q.id = p.id /\ q.sku = p.sku /\ q.ver = p.ver
                 /\ \A q \in products : q.active =>
                       \/ \E p \in products' : p.sku.base = q.sku.base /\ p.active
                       \/ q.sku.base = x.sku.base /\ ~x.active
      <3>1. CASE loaded.active
        <4>1. row = loaded
          BY <2>2, <2>6, <3>1
        <4>2. done \in products' /\ done.sku = x.sku
          BY <1>3, <1>5, <2>3, <3>1, <4>1
        <4>3. \A p \in products' : p.sku.base = x.sku.base => p = done
          BY <2>6, <4>2, OneView
        <4>4. \A p \in products' : p \in products \/ p = done
          BY <1>5, <3>1
        <4>5. \A q \in products : q = loaded \/ q \in products'
          BY <1>5, <3>1, <4>1
        <4> QED BY <1>3, <2>2, <2>3, <3>1, <4>1, <4>2, <4>3, <4>4, <4>5
      <3>2. CASE ~loaded.active
        <4>1. products' = products
          BY <1>5, <3>2
        <4>2. \A p \in products' : p.sku.base = x.sku.base => p = loaded
          BY <1>3, <2>6, <4>1, OneView
        <4> QED BY <3>2, <4>1, <4>2
      <3> QED BY <3>1, <3>2
    <2>7. "deactivate" \in {"upsert", "deactivate"} /\ x \in ProductRows /\ ~x.active
      BY <1>3
    <2>8. /\ changes' = changes + 1 /\ Blur(loaded \notin products, FALSE)
          /\ Push("deactivate", {x})
      BY <1>5, <2>1
    <2> QED BY <1>1, <1>4, <2>5, <2>6, <2>7, <2>8, ChangePushed
  <1>6. CASE UNCHANGED <<products, wire, changes, exact, clean>>
    BY <1>1, <1>6, EditEnds
  <1> QED BY <1>1, <1>5, <1>6

LEMMA DeleteProductStep ==
  ASSUME CatalogInv, NEW e \in Editors, DeleteProduct(e)
  PROVE  CatalogInv'
  <1> DEFINE loaded == Only(edit[e].loaded)
             x == Only(edit[e].new)
  <1>0. /\ products \subseteq ProductRows /\ changes \in Nat /\ IdsApart(products, changes)
    BY DEF CatalogInv, CatalogType
  <1>1. /\ edit[e].at = "delete" /\ edit' = [edit EXCEPT ![e] = NoEdit]
        /\ UNCHANGED <<shops, copy, opened, silent>>
        /\ \/ /\ changes' = changes + 1 /\ products' = products \ Current(loaded.id)
              /\ PushInactive(e) /\ Blur(loaded \notin products, FALSE)
           \/ UNCHANGED <<products, wire, changes, exact, clean>>
    BY DEF DeleteProduct
  <1>2. /\ loaded \in ProductRows /\ x = [loaded EXCEPT !.active = FALSE]
        /\ edit[e].new = {x}
    BY <1>1, EditRows
  <1> HIDE DEF loaded, x
  <1>3. x \in ProductRows /\ x.sku = loaded.sku /\ ~x.active
    BY <1>2, RowFields
  <1>4. edit' \in [Editors -> EditStates] /\ \A f \in Editors : EditOf(edit'[f])
    BY <1>1, NoEditFacts, EditSet
  <1>5. ASSUME changes' = changes + 1, products' = products \ Current(loaded.id),
               PushInactive(e), Blur(loaded \notin products, FALSE)
        PROVE  CatalogInv'
    <2>1. Push("deactivate", {x})
      BY <1>2, <1>5 DEF PushInactive
    <2>4. \A p \in products : p.id \in Nat
      BY <1>0 DEF ProductRows
    <2>5. products' \subseteq ProductRows /\ IdsApart(products', changes')
      BY <1>0, <1>5, <2>4 DEF IdsApart
    <2>6. ASSUME exact, wire = {}, loaded \in products
          PROVE  /\ \A p \in products' : p.sku.base # x.sku.base
                 /\ \A q \in products : q.active => q \in products' \/ q.sku.base = x.sku.base
      <3>1. Current(loaded.id) = {loaded}
        BY <1>0, <2>6 DEF IdsApart, Current
      <3>2. ~Collision(products)
        BY <2>6 DEF CatalogInv, ExactInv
      <3>3. \A p \in products : p.sku.base = x.sku.base => p = loaded
        BY <1>3, <2>6, <3>2, OneView
      <3> QED BY <1>3, <1>5, <3>1, <3>3
    <2>7. \A p \in products' : p \in products
      BY <1>5
    <2> QED BY <1>1, <1>3, <1>4, <1>5, <2>1, <2>5, <2>6, <2>7, ChangePushed
  <1>6. CASE UNCHANGED <<products, wire, changes, exact, clean>>
    BY <1>1, <1>6, EditEnds
  <1> QED BY <1>1, <1>5, <1>6

\* A full sync says of every product what it is.
LEMMA SyncStep ==
  ASSUME CatalogInv, SyncCatalog
  PROVE  CatalogInv'
  <1> DEFINE m == [n |-> changes', action |-> "upsert", views |-> {View(p) : p \in products}]
  <1>1. /\ wire' = wire \cup {m} /\ changes' = changes + 1
        /\ UNCHANGED <<products, shops, ordered, edit, copy, opened, exact, clean>>
    BY DEF SyncCatalog, Push
  <1>2. m.action = "upsert" /\ m.views = {View(p) : p \in products}
    OBVIOUS
  <1> HIDE DEF m
  <1>3. PushOf(m) /\ Agrees(products, m) /\ \A p \in products : Settles(copy, m, p)
    BY <1>2 DEF PushOf, Agrees, Settles
  <1>4. \A p \in products : p.id \in Nat
    BY DEF CatalogInv, CatalogType, ProductRows
  <1>5. changes \in Nat /\ IdsApart(products, changes + 1)
    BY <1>4 DEF CatalogInv, CatalogType, IdsApart
  <1>6. CatalogType'
    BY <1>1, <1>3, <1>5 DEF CatalogInv, CatalogType
  <1>7. ExactInv' /\ CleanInv'
    BY <1>1, <1>3 DEF CatalogInv, ExactInv, CleanInv
  <1> QED BY <1>6, <1>7 DEF CatalogInv

\* What a push leaves under the SKU b.
LEMMA StoredFacts ==
  ASSUME CatalogType, NEW m \in wire, NEW b \in SkuBases
  PROVE  LET c == Stored(m)[b]
         IN  /\ c = [ver |-> c.ver, active |-> c.active]
             /\ (\A v \in m.views : v.key # b) => c = copy[b]
             /\ m.action = "deactivate" /\ (\E v \in m.views : v.key = b) =>
                   c = [ver |-> copy[b].ver, active |-> FALSE]
             /\ \A p \in ProductRows :
                   m.action = "upsert" /\ View(p) \in m.views /\ p.sku.base = b
                         /\ (\A v \in m.views : v.key = b => v = View(p)) =>
                   c = Value(p)
  <1> DEFINE V == {v \in m.views : v.key = b}
             last == CHOOSE v \in V : \A w \in V : w.id <= v.id
             c == Stored(m)[b]
  <1>1. c = IF V = {} THEN copy[b]
            ELSE IF m.action = "deactivate" THEN [copy[b] EXCEPT !.active = FALSE]
            ELSE [ver |-> last.ver, active |-> last.active]
    BY DEF Stored
  <1>2. copy[b] = [ver |-> copy[b].ver, active |-> copy[b].active] /\ m.action \in {"upsert", "deactivate"}
    BY DEF CatalogType, PushOf
  <1>3. [copy[b] EXCEPT !.active = FALSE] = [ver |-> copy[b].ver, active |-> FALSE]
    <2> DEFINE n == copy[b].ver
               a == copy[b].active
    <2>2. copy[b] = [ver |-> n, active |-> a]
      BY <1>2
    <2> HIDE DEF n, a
    <2>3. [copy[b] EXCEPT !.active = FALSE] = [ver |-> n, active |-> FALSE]
      <3> DEFINE f == FALSE
      <3> HIDE DEF f
      <3>1. [copy[b] EXCEPT !.active = f] = [ver |-> n, active |-> f]
        BY <2>2
      <3> QED BY <3>1, Zenon DEF f
    <2> QED BY <2>3, Zenon DEF n
  <1> HIDE DEF c
  <1>4. (\A v \in m.views : v.key # b) => c = copy[b]
    BY <1>1
  <1>5. m.action = "deactivate" /\ (\E v \in m.views : v.key = b) => c = [ver |-> copy[b].ver, active |-> FALSE]
    BY <1>1, <1>3
  <1>6. ASSUME NEW p \in ProductRows, m.action = "upsert", View(p) \in m.views, p.sku.base = b,
               \A v \in m.views : v.key = b => v = View(p)
        PROVE  c = Value(p)
    <2> DEFINE x == View(p)
    <2>0. [ver |-> x.ver, active |-> x.active] = Value(p)
      BY DEF View, Value
    <2>1. x.key = b /\ x.id <= x.id
      <3>1. x.key = p.sku.base /\ x.id = p.id /\ p.id \in Nat
        BY RowFields
      <3> HIDE DEF x
      <3> QED BY <1>6, <3>1
    <2>2. x \in m.views /\ \A v \in m.views : v.key = b => v = x
      BY <1>6
    <2> HIDE DEF x
    <2>3. V = {x}
      BY <2>1, <2>2
    <2>4. last = x
      BY <2>1, <2>3
    <2> QED BY <1>1, <1>6, <2>0, <2>3, <2>4
  <1>7. c = [ver |-> c.ver, active |-> c.active]
    BY <1>1, <1>2, <1>3
  <1> QED BY <1>4, <1>5, <1>6, <1>7 DEF c

\* The arrival of a push that agrees with the rows: what is shown stays shown,
\* what the push settles is shown.
LEMMA StoredShows ==
  ASSUME CatalogType, NEW m \in wire, ~Collision(products), Agrees(products, m), NEW p \in products
  PROVE  LET b == p.sku.base
         IN  /\ copy[b] = Value(p) \/ Settles(copy, m, p) => Stored(m)[b] = Value(p)
             /\ \A k : k.action # "upsert" /\ Settles(copy, k, p) =>
                   Settles(Stored(m), k, p) \/ Stored(m)[b] = Value(p)
  <1> DEFINE b == p.sku.base
             c == Stored(m)[b]
  <1>0. p \in ProductRows /\ b \in SkuBases /\ PushOf(m)
    BY RowFields DEF CatalogType
  <1>1. /\ (\A v \in m.views : v.key # b) => c = copy[b]
        /\ m.action = "deactivate" /\ (\E v \in m.views : v.key = b) => c = [ver |-> copy[b].ver, active |-> FALSE]
        /\ m.action = "upsert" /\ View(p) \in m.views /\ (\A v \in m.views : v.key = b => v = View(p)) =>
              c = Value(p)
    BY <1>0, StoredFacts
  <1>2. CASE \A v \in m.views : v.key # b
    <2>1. ~Settles(copy, m, p)
      BY <1>0, <1>2, RowFields DEF Settles
    <2>2. c = copy[b]
      BY <1>1, <1>2
    <2> HIDE DEF c
    <2> QED BY <2>1, <2>2 DEF c, Settles
  <1>3. CASE m.action = "deactivate" /\ \E v \in m.views : v.key = b
    <2>1. c = [ver |-> copy[b].ver, active |-> FALSE]
      BY <1>1, <1>3
    <2>2. ~p.active
      BY <1>3 DEF Agrees
    <2>3. p.active = FALSE
      BY <1>0, <2>2 DEF ProductRows
    <2>4. copy[b].ver = p.ver => c = Value(p)
      BY <2>1, <2>3 DEF Value
    <2>5. copy[b] = Value(p) => copy[b].ver = p.ver
      BY DEF Value
    <2>6. Settles(copy, m, p) => copy[b].ver = p.ver
      BY <1>3 DEF Settles
    <2>7. \A k : k.action # "upsert" /\ Settles(copy, k, p) => copy[b].ver = p.ver
      BY DEF Settles
    <2> QED BY <2>4, <2>5, <2>6, <2>7
  <1>4. CASE m.action = "upsert" /\ \E v \in m.views : v.key = b
    <2>1. \A v \in m.views : v.key = b => v = View(p)
      <3> SUFFICES ASSUME NEW v \in m.views, v.key = b PROVE v = View(p)
        OBVIOUS
      <3>1. PICK q \in products : v = View(q)
        BY <1>4 DEF Agrees
      <3>2. q.sku.base = b
        BY <3>1 DEF View
      <3>3. q = p
        BY <3>2, OneView
      <3> QED BY <3>1, <3>3
    <2>2. c = Value(p)
      BY <1>1, <1>4, <2>1
    <2> QED BY <2>2
  <1> QED BY <1>0, <1>2, <1>3, <1>4 DEF PushOf

LEMMA DeliverStep ==
  ASSUME CatalogInv, NEW m \in wire, Deliver(m)
  PROVE  CatalogInv'
  <1>0. CatalogType /\ products \subseteq ProductRows /\ \A p \in products : p.sku.base \in SkuBases
    BY RowFields DEF CatalogInv, CatalogType
  <1>1. /\ copy' = Stored(m) /\ wire' = wire \ {m}
        /\ UNCHANGED <<products, shops, edit, changes, opened, silent, clean>>
        /\ exact' = \/ exact
                    \/ /\ wire = {m} /\ m.action = "upsert"
                       /\ m.views = {View(p) : p \in products} /\ ~Collision(products)
    BY DEF Deliver
  <1>2. CatalogType'
    <2>1. \A b \in SkuBases : copy'[b] = [ver |-> copy'[b].ver, active |-> copy'[b].active]
      BY <1>0, <1>1, StoredFacts
    <2>2. exact' \in BOOLEAN
      BY <1>1
    <2> QED BY <1>1, <2>1, <2>2 DEF CatalogInv, CatalogType
  <1>3. CASE exact
    <2>1. /\ ~Collision(products) /\ \A k \in wire : Agrees(products, k)
          /\ \A p \in products :
                p.id \in silent \/ copy[p.sku.base] = Value(p) \/ \E k \in wire : Settles(copy, k, p)
      BY <1>3 DEF CatalogInv, ExactInv
    <2>2. ASSUME NEW p \in products, p.id \notin silent
          PROVE  copy'[p.sku.base] = Value(p) \/ \E k \in wire' : Settles(copy', k, p)
      <3>1. CASE copy[p.sku.base] = Value(p) \/ Settles(copy, m, p)
        BY <1>0, <1>1, <2>1, <3>1, StoredShows
      <3>2. ASSUME NEW k \in wire \ {m}, Settles(copy, k, p)
            PROVE  copy'[p.sku.base] = Value(p) \/ Settles(copy', k, p)
        <4>1. CASE k.action = "upsert"
          BY <3>2, <4>1 DEF Settles
        <4>2. CASE k.action # "upsert"
          BY <1>0, <1>1, <2>1, <3>2, <4>2, StoredShows
        <4> QED BY <4>1, <4>2
      <3> QED BY <1>1, <2>1, <2>2, <3>1, <3>2
    <2>3. ExactInv'
      BY <1>1, <2>1, <2>2 DEF ExactInv
    <2>4. ASSUME clean, NEW b \in SkuBases, copy'[b].active
          PROVE  \/ \E p \in products : p.sku.base = b /\ p.active
                 \/ \E k \in wire' : \E v \in k.views : v.key = b /\ ~v.active
      <3>1. CASE \A v \in m.views : v.key # b
        <4>1. copy'[b] = copy[b]
          BY <1>0, <1>1, <3>1, StoredFacts
        <4>2. \/ \E p \in products : p.sku.base = b /\ p.active
              \/ \E k \in wire : \E v \in k.views : v.key = b /\ ~v.active
          BY <2>4, <4>1 DEF CatalogInv, CleanInv
        <4> QED BY <1>1, <3>1, <4>2
      <3>2. CASE m.action = "deactivate" /\ \E v \in m.views : v.key = b
        <4>1. copy'[b] = [ver |-> copy[b].ver, active |-> FALSE]
          BY <1>0, <1>1, <3>2, StoredFacts
        <4> QED BY <2>4, <4>1
      <3>3. CASE m.action = "upsert" /\ \E v \in m.views : v.key = b
        <4>1. PICK v \in m.views, p \in products : v.key = b /\ v = View(p)
          BY <2>1, <3>3 DEF Agrees
        <4>2. p.sku.base = b /\ Settles(copy, m, p)
          BY <3>3, <4>1 DEF View, Settles
        <4>3. copy'[b] = Value(p)
          BY <1>0, <1>1, <2>1, <4>2, StoredShows
        <4>4. p.active
          BY <2>4, <4>3 DEF Value
        <4> QED BY <4>2, <4>4
      <3>4. m.action \in {"upsert", "deactivate"}
        BY <1>0 DEF CatalogType, PushOf
      <3> QED BY <3>1, <3>2, <3>3, <3>4
    <2>5. CleanInv'
      BY <1>1, <1>3, <2>4 DEF CleanInv
    <2> QED BY <1>2, <2>3, <2>5 DEF CatalogInv
  <1>4. CASE ~exact
    <2>1. ~clean
      BY <1>4 DEF CatalogInv, CleanInv
    <2>2. ASSUME exact'
          PROVE  /\ ~Collision(products) /\ wire' = {}
                 /\ \A p \in products : copy'[p.sku.base] = Value(p)
      <3>1. /\ wire = {m} /\ m.action = "upsert"
            /\ m.views = {View(p) : p \in products} /\ ~Collision(products)
        BY <1>1, <1>4, <2>2
      <3>2. Agrees(products, m) /\ \A p \in products : Settles(copy, m, p)
        BY <3>1 DEF Agrees, Settles
      <3>3. \A p \in products : copy'[p.sku.base] = Value(p)
        BY <1>0, <1>1, <3>1, <3>2, StoredShows
      <3> QED BY <1>1, <3>1, <3>3
    <2>3. ExactInv'
      BY <1>1, <2>2 DEF ExactInv
    <2>4. CleanInv'
      BY <1>1, <2>1 DEF CleanInv
    <2> QED BY <1>2, <2>3, <2>4 DEF CatalogInv
  <1> QED BY <1>3, <1>4

LEMMA LoadStep ==
  ASSUME CatalogInv, NEW e \in Editors, NEW p \in products,
         \/ LoadForDelete(e, p)
         \/ \E sku \in Skus, active \in BOOLEAN, shop \in Nat : LoadForUpdate(e, p, sku, active, shop)
  PROVE  CatalogInv'
  <1>0. /\ p \in ProductRows /\ changes \in Nat /\ opened \in Nat /\ shops \subseteq ShopRows
    BY DEF CatalogInv, CatalogType
  <1>1. PICK x \in EditStates :
           /\ EditOf(x) /\ edit' = [edit EXCEPT ![e] = x]
           /\ UNCHANGED <<products, shops, wire, copy, changes, opened, silent, exact, clean>>
    <2>1. ASSUME LoadForDelete(e, p)
          PROVE  \E x \in EditStates :
                    /\ EditOf(x) /\ edit' = [edit EXCEPT ![e] = x]
                    /\ UNCHANGED <<products, shops, wire, copy, changes, opened, silent, exact, clean>>
      <3> DEFINE q == [p EXCEPT !.active = FALSE]
                 x == [at |-> IF p.id \in ordered THEN "archive" ELSE "delete",
                       loaded |-> {p}, new |-> {q}]
      <3>1. q \in ProductRows /\ q.id = p.id
        BY <1>0, RowFields
      <3>2. x \in EditStates /\ EditOf(x)
        BY <1>0, <3>1 DEF EditStates, EditOf
      <3> QED BY <2>1, <3>2 DEF LoadForDelete
    <2>2. ASSUME NEW sku \in Skus, NEW active \in BOOLEAN, NEW shop \in Nat,
                 LoadForUpdate(e, p, sku, active, shop)
          PROVE  \E x \in EditStates :
                    /\ EditOf(x) /\ edit' = [edit EXCEPT ![e] = x]
                    /\ UNCHANGED <<products, shops, wire, copy, changes, opened, silent, exact, clean>>
      <3> DEFINE q == [p EXCEPT !.sku = sku, !.active = active, !.shop = shop]
                 x == [at |-> "update", loaded |-> {p}, new |-> {q}]
      <3>1. q \in ProductRows /\ q.id = p.id
        BY <1>0 DEF ProductRows
      <3>2. x \in EditStates /\ EditOf(x)
        BY <1>0, <3>1 DEF EditStates, EditOf
      <3> QED BY <2>2, <3>2 DEF LoadForUpdate
    <2> QED BY <2>1, <2>2
  <1>2. edit' \in [Editors -> EditStates] /\ \A f \in Editors : EditOf(edit'[f])
    BY <1>1, EditSet
  <1> QED BY <1>0, <1>1, <1>2, CatalogQuiet

LEMMA CatalogStep == CatalogInv /\ [CatalogNext]_catalogVars => CatalogInv'
  <1> SUFFICES ASSUME CatalogInv, [CatalogNext]_catalogVars PROVE CatalogInv'
    OBVIOUS
  <1>0. /\ changes \in Nat /\ opened \in Nat /\ shops \subseteq ShopRows
        /\ edit \in [Editors -> EditStates] /\ \A e \in Editors : EditOf(edit[e])
    BY DEF CatalogInv, CatalogType
  <1>1. ASSUME UNCHANGED <<products, wire, edit, copy, changes, silent, exact, clean>>,
               opened' \in Nat, shops' \subseteq ShopRows
        PROVE  CatalogInv'
    BY <1>0, <1>1, CatalogQuiet
  <1>2. ASSUME NEW sku \in Skus, NEW active \in BOOLEAN, NEW shop \in {0} \cup {s.id : s \in shops},
               \/ CreateProduct(sku, active, shop)
               \/ \E e \in Editors, p \in products : LoadForUpdate(e, p, sku, active, shop)
        PROVE  CatalogInv'
    <2>1. shop \in Nat
      BY <1>0 DEF ShopRows
    <2> QED BY <1>2, <2>1, CreateStep, LoadStep
  <1>7. ASSUME NEW base \in SkuBases, AutoCreateProduct(base) PROVE CatalogInv'
    BY <1>7, AutoCreateStep
  <1>3. ASSUME NEW e \in Editors, UpdateProduct(e) \/ ArchiveProduct(e) \/ DeleteProduct(e)
        PROVE  CatalogInv'
    BY <1>3, UpdateStep, ArchiveStep, DeleteProductStep
  <1>4. ASSUME NEW p \in products, OrderProduct(p) \/ \E e \in Editors : LoadForDelete(e, p)
        PROVE  CatalogInv'
    BY <1>0, <1>1, <1>4, LoadStep DEF OrderProduct
  <1>5. ASSUME NEW m \in wire, Deliver(m) \/ Lose(m) PROVE CatalogInv'
    <2>1. CASE Lose(m)
      <3>1. /\ wire' = wire \ {m} /\ ~exact' /\ ~clean' /\ exact' \in BOOLEAN /\ clean' \in BOOLEAN
            /\ UNCHANGED <<products, shops, edit, copy, changes, opened>>
        BY <2>1 DEF Lose
      <3>2. CatalogType'
        BY <3>1 DEF CatalogInv, CatalogType
      <3> QED BY <3>1, <3>2 DEF CatalogInv, ExactInv, CleanInv
    <2> QED BY <1>5, <2>1, DeliverStep
  <1>6. CASE ShopNext \/ UNCHANGED catalogVars
    <2>1. ASSUME NEW slug \in Slugs, CreateShop(slug) PROVE CatalogInv'
      <3>1. [id |-> opened + 1, slug |-> slug] \in ShopRows
        BY <1>0 DEF ShopRows
      <3> QED BY <1>0, <1>1, <2>1, <3>1 DEF CreateShop
    <2>2. ASSUME NEW s \in shops, NEW slug \in Slugs, UpdateShop(s, slug) PROVE CatalogInv'
      <3>1. [s EXCEPT !.slug = slug] \in ShopRows
        BY <1>0 DEF ShopRows
      <3> QED BY <1>0, <1>1, <2>2, <3>1 DEF UpdateShop
    <2>3. ASSUME NEW s \in shops, DeleteShop(s) PROVE CatalogInv'
      BY <1>0, <1>1, <2>3 DEF DeleteShop
    <2>4. CASE UNCHANGED catalogVars
      BY <1>0, <1>1, <2>4 DEF catalogVars
    <2> QED BY <1>6, <2>1, <2>2, <2>3, <2>4 DEF ShopNext
  <1> QED BY <1>2, <1>3, <1>4, <1>5, <1>6, <1>7, SyncStep DEF CatalogNext, ProductNext

\* While nothing has blurred the copy since the last undisturbed full sync, the
\* drone shop shows every product that was ever pushed as it is here once all
\* pushes have arrived.
THEOREM ShopShowsProducts == CatalogSpec => []ShopMirrorsProducts
  <1>1. CatalogInv => ShopMirrorsProducts
    BY DEF CatalogInv, ExactInv, Value, ShopMirrorsProducts
  <1> QED BY <1>1, CatalogInitially, CatalogStep, PTL DEF CatalogSpec

\* While nothing ever has, and no SKU was given up by a rename, it sells nothing
\* that was deleted or archived here.
THEOREM ShopSellsWhatExists == CatalogSpec => []ShopSellsNothingElse
  <1>1. CatalogInv => ShopSellsNothingElse
    BY DEF CatalogInv, CleanInv, ShopSellsNothingElse
  <1> QED BY <1>1, CatalogInitially, CatalogStep, PTL DEF CatalogSpec

=============================================================================
