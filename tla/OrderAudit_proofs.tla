-------------------------- MODULE OrderAudit_proofs --------------------------
(***************************************************************************)
(* Proofs about the audit trail OrderSync keeps of its orders, and about   *)
(* what an upsert that failed leaves behind, for any number of replicas,   *)
(* clients and orders, any order contents and any bounds.                  *)
(***************************************************************************)
EXTENDS OrderItems_proofs

-----------------------------------------------------------------------------
(* The inductive invariant behind AuditMatchesOrders.                      *)

SuccessIn(A, key, ver) == \E a \in A : a.key = key /\ a.status = "success" /\ a.ver = ver
CreatedIn(A, key) == \E a \in A : a.key = key /\ a.action = "created"

\* An audit trail records the creation of an order once, and as a success.
CreatedOnce(A) ==
    /\ \A a \in A : a.action = "created" => a.status = "success"
    /\ \A a, b \in A : a.key = b.key /\ a.action = "created" /\ b.action = "created" => a = b

\* A write set holds synced rows, each with the audit of its version, here or
\* in the committed trail A, but for the order open; it audits successes of
\* its own orders, and creations of orders the committed rows do not have.
AuditedWrites(W, A, rows, open) ==
    /\ CreatedOnce(W.audit)
    /\ \A w \in W.orders :
          /\ w.sync = "synced"
          /\ w.ver > 0 /\ w.id # open => SuccessIn(A \cup W.audit, w.key, w.ver)
    /\ \A a \in W.audit :
          /\ a.status = "success" => a.key \in KeysOf(W.orders)
          /\ a.action = "created" => a.key \notin KeysOf(rows)

\* A row loaded as synced has stayed one.  The order under way is of the
\* version in hand or of an audited one, and new if none was loaded.
AuditUnderWay(p) ==
    /\ pc[p] = "write" /\ loaded[p] # None /\ loaded[p].sync = "synced" =>
          \A r \in VisibleOrders(p) : r.id = loaded[p].id => r.sync = "synced"
    /\ pc[p] = "items" =>
          /\ \A w \in pend[p].orders : w.id = oid[p] /\ w.ver > 0 =>
                w.ver = Head(batch[p]).ver \/ SuccessIn(audit \cup pend[p].audit, w.key, w.ver)
          /\ loaded[p] = None =>
                Ref(p) \notin KeysOf(orders) /\ ~CreatedIn(pend[p].audit, Ref(p))

AuditOfRun(p) ==
    /\ AuditedWrites(pend[p], audit, orders, oid[p])
    /\ AuditedWrites(save[p], audit, orders, None)
    /\ AuditUnderWay(p)

AuditInv ==
    /\ AuditMatchesOrders
    /\ CreatedOnce(audit)
    /\ \A p \in Runners : AuditOfRun(p)

-----------------------------------------------------------------------------
(* Audits of a write set.                                                  *)

\* Only its order and audit tables count.
LEMMA AuditedSame ==
  ASSUME NEW V, NEW W, NEW A, NEW rows, NEW open, AuditedWrites(W, A, rows, open),
         V.orders = W.orders, V.audit = W.audit
  PROVE  AuditedWrites(V, A, rows, open)
  BY DEF AuditedWrites

\* A transaction that has written nothing audits nothing.
LEMMA AuditedNothing ==
  ASSUME NEW A, NEW rows, NEW open
  PROVE  AuditedWrites(NoWrites, A, rows, open)
  BY DEF AuditedWrites, CreatedOnce, NoWrites

\* The committed trail may grow, and the committed rows by keys the write set
\* does not hold.
LEMMA AuditedBeside ==
  ASSUME NEW W, NEW A, NEW A2, NEW rows, NEW rows2, NEW open,
         AuditedWrites(W, A, rows, open), A \subseteq A2,
         KeysOf(rows2) \cap KeysOf(W.orders) \subseteq KeysOf(rows)
  PROVE  AuditedWrites(W, A2, rows2, open)
  <1>1. \A a \in W.audit : a.action = "created" => a.key \notin KeysOf(rows2)
    BY DEF AuditedWrites, CreatedOnce
  <1>2. \A key, ver : SuccessIn(A \cup W.audit, key, ver) => SuccessIn(A2 \cup W.audit, key, ver)
    BY DEF SuccessIn
  <1> QED BY <1>1, <1>2 DEF AuditedWrites

\* An order is stored, its audit yet to come ...
LEMMA AuditedStore ==
  ASSUME NEW V, NEW W, NEW A, NEW rows, NEW row, AuditedWrites(W, A, rows, None),
         V.orders = Overlay(W.orders, {row}), V.audit = W.audit,
         None \notin IdsOf(W.orders), row.sync = "synced",
         \A w \in W.orders : w.id = row.id => w.key = row.key
  PROVE  AuditedWrites(V, A, rows, row.id)
  <1>1. V.orders = {w \in W.orders : w.id # row.id} \cup {row}
    BY DEF Overlay, IdsOf
  <1>2. ASSUME NEW w \in V.orders
        PROVE  /\ w.sync = "synced"
               /\ w.ver > 0 /\ w.id # row.id => SuccessIn(A \cup V.audit, w.key, w.ver)
    <2>1. CASE w = row
      BY <2>1
    <2>2. CASE w \in W.orders
      <3>1. w.id # None
        BY <2>2 DEF IdsOf
      <3> QED BY <2>2, <3>1 DEF AuditedWrites
    <2> QED BY <1>1, <2>1, <2>2
  <1>3. KeysOf(W.orders) \subseteq KeysOf(V.orders)
    BY <1>1 DEF KeysOf
  <1> QED BY <1>2, <1>3 DEF AuditedWrites

\* ... and then audited as created or updated.
LEMMA AuditedFinish ==
  ASSUME NEW V, NEW W, NEW A, NEW rows, NEW open, NEW a, AuditedWrites(W, A, rows, open),
         V.orders = W.orders, V.audit = W.audit \cup {a},
         a.status = "success", a.key \in KeysOf(W.orders),
         \A w \in W.orders : w.id = open =>
            w.key = a.key /\ (w.ver > 0 => w.ver = a.ver \/ SuccessIn(A \cup W.audit, w.key, w.ver)),
         a.action = "created" => a.key \notin KeysOf(rows) /\ ~CreatedIn(W.audit, a.key)
  PROVE  AuditedWrites(V, A, rows, None)
  <1>1. CreatedOnce(V.audit)
    BY DEF AuditedWrites, CreatedOnce, CreatedIn
  <1>2. ASSUME NEW w \in V.orders, w.ver > 0 PROVE SuccessIn(A \cup V.audit, w.key, w.ver)
    <2>1. CASE w.id = open /\ w.ver = a.ver
      BY <2>1 DEF SuccessIn
    <2>2. CASE SuccessIn(A \cup W.audit, w.key, w.ver)
      BY <2>2 DEF SuccessIn
    <2> QED BY <1>2, <2>1, <2>2 DEF AuditedWrites
  <1> QED BY <1>1, <1>2 DEF AuditedWrites

\* Other audits, of failures and of orders without an id, do not count.
LEMMA AuditedAlso ==
  ASSUME NEW V, NEW W, NEW A, NEW rows, NEW open, NEW a, AuditedWrites(W, A, rows, open),
         V.orders = W.orders, V.audit = W.audit \cup {a},
         a.status # "success", a.action # "created"
  PROVE  AuditedWrites(V, A, rows, open)
  <1>1. CreatedOnce(V.audit)
    BY DEF AuditedWrites, CreatedOnce
  <1>2. \A key, ver : SuccessIn(A \cup W.audit, key, ver) => SuccessIn(A \cup V.audit, key, ver)
    BY DEF SuccessIn
  <1> QED BY <1>1, <1>2 DEF AuditedWrites

-----------------------------------------------------------------------------
(* A run's own steps.                                                      *)

LEMMA AuditEarly ==
  ASSUME TypeOK, KeyInv, NEW p \in Runners, ItemsOfRun(p), AuditOfRun(p),
         \/ FetchExternalOrders(p) \/ ProductLookup(p) \/ SkipInvalid(p)
         \/ ResolveCustomer(p) \/ InsertCustomer(p) \/ SelectOrder(p)
  PROVE  AuditOfRun(p)'
  <1> DEFINE a == AuditRow(None, "skip", "invalid", 0)
  <1>1. /\ orders' = orders /\ audit' = audit /\ oid' = oid
        /\ pc[p] # "items" /\ pc'[p] # "items" /\ save'[p] \in {save[p], pend[p]}
        /\ pend'[p].orders = pend[p].orders
        /\ pend'[p].audit = pend[p].audit \/ pend'[p].audit = pend[p].audit \cup {a}
    BY EarlyWrites
  <1>2. oid[p] = None /\ AuditedWrites(pend[p], audit, orders, None)
    BY <1>1 DEF AuditOfRun, ItemsOfRun, ItemsUnderWay
  <1>3. a.status # "success" /\ a.action # "created"
    BY DEF AuditRow
  <1> HIDE DEF a
  <1>4. AuditedWrites(pend'[p], audit, orders, None)
    BY <1>1, <1>2, <1>3, AuditedSame, AuditedAlso
  <1>5. AuditedWrites(save'[p], audit, orders, None)
    BY <1>1, <1>2 DEF AuditOfRun
  <1>6. AuditUnderWay(p)'
    <2>1. CASE SelectOrder(p)
      <3>1. loaded'[p] = IF Ref(p) \in KeysOf(VisibleOrders(p))
                         THEN CHOOSE r \in VisibleOrders(p) : r.key = Ref(p) ELSE None
        BY <2>1 DEF SelectOrder, TypeOK
      <3>2. loaded'[p] # None => loaded'[p] \in VisibleOrders(p)
        BY <3>1 DEF KeysOf
      <3>3. VisibleOrders(p)' = VisibleOrders(p)
        BY <1>1 DEF VisibleOrders
      <3> QED BY <1>1, <3>2, <3>3, VisibleDistinct DEF AuditUnderWay
    <2>2. CASE ~SelectOrder(p)
      <3>1. pc'[p] # "write"
        BY <2>2 DEF FetchExternalOrders, ProductLookup, SkipInvalid, ResolveCustomer,
                    InsertCustomer, TypeOK
      <3> QED BY <1>1, <3>1 DEF AuditUnderWay
    <2> QED BY <2>1, <2>2
  <1> QED BY <1>1, <1>2, <1>4, <1>5, <1>6 DEF AuditOfRun

\* A run that ends without a commit, or has committed, audits nothing.
LEMMA AuditReset ==
  ASSUME TypeOK, NEW p \in Runners, Reset(p)
  PROVE  AuditOfRun(p)'
  <1>1. pend'[p] = NoWrites /\ save'[p] = NoWrites /\ pc'[p] = "idle"
    BY DEF Reset, TypeOK
  <1> QED BY <1>1, AuditedNothing DEF AuditOfRun, AuditUnderWay

\* A failed savepoint takes the audits of the order back with it.
LEMMA AuditFail ==
  ASSUME TypeOK, NEW p \in Runners, AuditOfRun(p), FailOrder(p)
  PROVE  AuditOfRun(p)'
  <1> DEFINE a == AuditRow(Ref(p), "upsert", "failed", Head(batch[p]).ver)
  <1>1. /\ pend'[p].orders = save[p].orders /\ pend'[p].audit = save[p].audit \cup {a}
        /\ save'[p] = NoWrites /\ oid'[p] = None /\ pc'[p] = "loop"
        /\ orders' = orders /\ audit' = audit
    BY FailWrites
  <1>2. a.status # "success" /\ a.action # "created"
    BY DEF AuditRow
  <1> HIDE DEF a
  <1>3. AuditedWrites(pend'[p], audit, orders, None)
    BY <1>1, <1>2, AuditedAlso DEF AuditOfRun
  <1> QED BY <1>1, <1>3, AuditedNothing DEF AuditOfRun, AuditUnderWay

\* The row a run stores: of the order in hand, synced, and of the version in
\* hand unless UPDATE kept the version it found, which then is an audited one.
LEMMA StoredRow ==
  ASSUME TypeOK, KeyInv, AuditInv, NEW p \in Runners, ItemsOfRun(p),
         InsertOrder(p) \/ UpdateOrder(p)
  PROVE  /\ pc[p] = "write"
         /\ \E row \in OrderRow :
               /\ StoreOrder(p, row) /\ row.key = Ref(p) /\ row.sync = "synced"
               /\ row.ver > 0 => \/ row.ver = Head(batch[p]).ver
                                 \/ SuccessIn(audit \cup pend[p].audit, Ref(p), row.ver)
               /\ \A w \in pend[p].orders : w.id = row.id => w.key = row.key
         /\ loaded[p] = None =>
               Ref(p) \notin KeysOf(orders) /\ Ref(p) \notin KeysOf(pend[p].orders)
  <1>1. pc[p] = "write" /\ oid[p] = None
    BY DEF InsertOrder, UpdateOrder, ItemsOfRun, ItemsUnderWay
  <1>2. CASE InsertOrder(p)
    <2> DEFINE row == SyncedColumns(p, NewId)
    <2>1. NewId \in OrderIds /\ NewId \notin UsedIds /\ StoreOrder(p, row)
      BY <1>2, NewIdFresh DEF InsertOrder
    <2>2. row \in OrderRow /\ row.id = NewId /\ row.key = Ref(p)
      BY <1>1, <2>1, SyncedColumnsType
    <2>3. row.sync = "synced" /\ row.ver = Head(batch[p]).ver
      BY DEF SyncedColumns
    <2> HIDE DEF row
    <2>4. \A w \in pend[p].orders : w.id # row.id
      BY <2>1, <2>2 DEF UsedIds, IdsOf
    <2>5. \A w \in VisibleOrders(p) : w.key # Ref(p)
      BY <1>2 DEF InsertOrder, UniqueSourceRef, KeysOf
    <2>6. \A w \in pend[p].orders : w.key # Ref(p)
      BY <2>5 DEF VisibleOrders, Overlay
    <2>7. ASSUME NEW o \in orders, o.key = Ref(p) PROVE FALSE
      <3>1. PICK w \in pend[p].orders : w.id = o.id
        BY <2>5, <2>7 DEF VisibleOrders, Overlay, IdsOf
      <3>2. w.key = o.key
        BY <3>1 DEF KeyInv, Compatible
      <3> QED BY <2>6, <2>7, <3>2
    <2> QED BY <1>1, <2>1, <2>2, <2>3, <2>4, <2>6, <2>7 DEF KeysOf
  <1>3. CASE UpdateOrder(p)
    <2>1. loaded[p] # None
      BY <1>3 DEF UpdateOrder
    <2>2. PICK current \in VisibleOrders(p), row \in OrderRow :
             /\ row = DirtyUpdate(current, loaded[p], SyncedColumns(p, current.id))
             /\ StoreOrder(p, row)
             /\ current.id = loaded[p].id /\ row.id = current.id
             /\ current.key = Ref(p) /\ row.key = Ref(p)
      BY <1>3, UpdateRow
    <2>3. current \in OrderRow /\ current \in orders \cup pend[p].orders
      BY DEF VisibleOrders, Overlay, TypeOK, WriteSet
    <2>4. /\ row.sync = Dirty(current.sync, loaded[p].sync, "synced")
          /\ row.ver = Dirty(current.ver, loaded[p].ver, Head(batch[p]).ver)
      BY <2>2, <2>3 DEF DirtyUpdate, SyncedColumns, OrderRow
    <2>5. row.sync = "synced"
      <3>1. loaded[p].sync = "synced" => current.sync = "synced"
        BY <1>1, <2>1, <2>2 DEF AuditInv, AuditOfRun, AuditUnderWay
      <3> QED BY <2>4, <3>1 DEF Dirty
    <2>6. current.ver > 0 => SuccessIn(audit \cup pend[p].audit, Ref(p), current.ver)
      <3>1. CASE current \in orders
        BY <2>2, <3>1 DEF AuditInv, AuditMatchesOrders, SuccessIn
      <3>2. CASE current \in pend[p].orders
        <4>1. current.id # None
          BY <2>3, ConstantsAssumption DEF OrderRow
        <4> QED BY <1>1, <2>2, <3>2, <4>1 DEF AuditInv, AuditOfRun, AuditedWrites
      <3> QED BY <2>3, <3>1, <3>2
    <2>7. row.ver > 0 => \/ row.ver = Head(batch[p]).ver
                         \/ SuccessIn(audit \cup pend[p].audit, Ref(p), row.ver)
      BY <2>4, <2>6 DEF Dirty
    <2>8. \A w \in pend[p].orders : w.id = row.id => w.key = row.key
      <3>1. Compatible(orders, pend[p].orders) /\ Ledger!Distinct(pend[p].orders)
        BY DEF KeyInv
      <3>2. \A w \in pend[p].orders : w.id = current.id => w.key = current.key
        BY <2>3, <3>1 DEF Compatible, Ledger!Distinct
      <3> QED BY <2>2, <3>2
    <2> QED BY <1>1, <2>1, <2>2, <2>5, <2>7, <2>8
  <1> QED BY <1>2, <1>3

LEMMA AuditStore ==
  ASSUME TypeOK, KeyInv, AuditInv, NEW p \in Runners, ItemsOfRun(p),
         InsertOrder(p) \/ UpdateOrder(p)
  PROVE  AuditOfRun(p)'
  <1>1. PICK row \in OrderRow :
           /\ StoreOrder(p, row) /\ row.key = Ref(p) /\ row.sync = "synced"
           /\ row.ver > 0 => \/ row.ver = Head(batch[p]).ver
                             \/ SuccessIn(audit \cup pend[p].audit, Ref(p), row.ver)
           /\ \A w \in pend[p].orders : w.id = row.id => w.key = row.key
    BY StoredRow
  <1>2. oid[p] = None /\ AuditOfRun(p)
    BY StoredRow DEF AuditInv, ItemsOfRun, ItemsUnderWay
  <1>a. StoreOrder(p, row)
    BY <1>1
  <1>3. /\ pend'[p].orders = Overlay(pend[p].orders, {row}) /\ pend'[p].audit = pend[p].audit
        /\ save' = save /\ batch' = batch /\ loaded' = loaded
        /\ orders' = orders /\ audit' = audit /\ oid'[p] = row.id /\ pc'[p] = "items"
    BY <1>a, StoreWrites
  <1>4. None \notin IdsOf(pend[p].orders)
    BY ConstantsAssumption DEF TypeOK, WriteSet, OrderRow, IdsOf
  <1>5. AuditedWrites(pend'[p], audit, orders, row.id)
    <2>1. AuditedWrites(pend[p], audit, orders, None)
      BY <1>2 DEF AuditOfRun
    <2> QED BY <1>1, <1>3, <1>4, <2>1, AuditedStore
  <1>6. \A w \in pend'[p].orders : w.id = row.id => w = row
    BY <1>3 DEF Overlay, IdsOf
  <1>7. loaded[p] = None => Ref(p) \notin KeysOf(orders) /\ ~CreatedIn(pend[p].audit, Ref(p))
    <2>1. \A a \in pend[p].audit : a.action = "created" => a.key \in KeysOf(pend[p].orders)
      BY <1>2 DEF AuditOfRun, AuditedWrites, CreatedOnce
    <2> QED BY <2>1, StoredRow DEF CreatedIn
  <1>8. AuditUnderWay(p)'
    <2>1. Ref(p)' = Ref(p)
      BY <1>3 DEF Ref
    <2> QED BY <1>1, <1>3, <1>6, <1>7, <2>1 DEF AuditUnderWay
  <1> QED BY <1>2, <1>3, <1>5, <1>8 DEF AuditOfRun

\* Adding items changes nothing of this.
LEMMA AuditAdd ==
  ASSUME TypeOK, NEW p \in Runners, AuditOfRun(p), AddItem(p) \/ AddProductAndItem(p)
  PROVE  AuditOfRun(p)'
  <1>1. /\ pend'[p].orders = pend[p].orders /\ pend'[p].audit = pend[p].audit
        /\ pc[p] = "items" /\ pc' = pc /\ oid' = oid /\ save' = save /\ batch' = batch
        /\ loaded' = loaded /\ orders' = orders /\ audit' = audit
    BY AddWrites
  <1>2. AuditedWrites(pend'[p], audit, orders, oid[p])
    BY <1>1, AuditedSame DEF AuditOfRun
  <1>3. Ref(p)' = Ref(p)
    BY <1>1 DEF Ref
  <1>4. AuditUnderWay(p)'
    BY <1>1, <1>3 DEF AuditOfRun, AuditUnderWay
  <1> QED BY <1>1, <1>2, <1>4 DEF AuditOfRun

\* The audit that ends the order.
LEMMA AuditFinish ==
  ASSUME TypeOK, KeyInv, NEW p \in Runners, ItemsOfRun(p), AuditOfRun(p), FinishOrder(p)
  PROVE  AuditOfRun(p)'
  <1> DEFINE a == AuditRow(Ref(p), IF loaded[p] = None THEN "created" ELSE "updated",
                           "success", Head(batch[p]).ver)
  <1>1. /\ pc[p] = "items" /\ pc'[p] = "loop" /\ save'[p] = NoWrites /\ oid'[p] = None
        /\ pend'[p].audit = pend[p].audit \cup {a} /\ pend'[p].orders = pend[p].orders
        /\ orders' = orders /\ audit' = audit
    BY FinishWrites
  <1>2. /\ a.key = Ref(p) /\ a.status = "success" /\ a.ver = Head(batch[p]).ver
        /\ a.action = "created" => loaded[p] = None
    BY DEF AuditRow
  <1> HIDE DEF a
  <1>3. PICK w \in pend[p].orders : w.id = oid[p] /\ w.key = Ref(p)
    BY <1>1 DEF ItemsOfRun, ItemsUnderWay
  <1>4. \A v \in pend[p].orders : v.id = oid[p] => v = w
    BY <1>3 DEF KeyInv, Ledger!Distinct
  <1>5. \A v \in pend[p].orders : v.id = oid[p] =>
           v.key = a.key /\ (v.ver > 0 => v.ver = a.ver
                                           \/ SuccessIn(audit \cup pend[p].audit, v.key, v.ver))
    BY <1>1, <1>2, <1>3, <1>4 DEF AuditOfRun, AuditUnderWay
  <1>6. a.action = "created" => a.key \notin KeysOf(orders) /\ ~CreatedIn(pend[p].audit, a.key)
    BY <1>1, <1>2 DEF AuditOfRun, AuditUnderWay
  <1>7. a.key \in KeysOf(pend[p].orders)
    BY <1>2, <1>3 DEF KeysOf
  <1>8. AuditedWrites(pend[p], audit, orders, oid[p])
    BY DEF AuditOfRun
  <1>9. AuditedWrites(pend'[p], audit, orders, None)
    BY <1>1, <1>2, <1>5, <1>6, <1>7, <1>8, AuditedFinish
  <1> QED BY <1>1, <1>9, AuditedNothing DEF AuditOfRun, AuditUnderWay

-----------------------------------------------------------------------------
(* Steps seen by the other runs, and the committed rows and audits.        *)

\* A run that does not move is not disturbed when audits are added, when rows
\* are added under ids nobody has used and keys it does not hold, and when rows
\* stay as synced as they were or become so.
LEMMA AuditAside ==
  ASSUME KeyInv, NEW q \in Runners, ItemsOfRun(q), AuditOfRun(q),
         pend'[q] = pend[q], save'[q] = save[q], pc'[q] = pc[q], batch'[q] = batch[q],
         loaded'[q] = loaded[q], oid'[q] = oid[q],
         audit \subseteq audit',
         KeysOf(orders') \cap KeysOf(pend[q].orders) \subseteq KeysOf(orders),
         \A r \in orders' : \/ r.sync = "synced"
                            \/ \E b \in orders : b.id = r.id /\ b.sync = r.sync
                            \/ r.id \notin UsedIds
  PROVE  AuditOfRun(q)'
  <1>1. AuditedWrites(pend[q], audit', orders', oid[q])
    BY AuditedBeside DEF AuditOfRun
  <1>2. AuditedWrites(save[q], audit', orders', None)
    <2>1. KeysOf(orders') \cap KeysOf(save[q].orders) \subseteq KeysOf(orders)
      BY SavedIds
    <2> QED BY <2>1, AuditedBeside DEF AuditOfRun
  <1>3. ASSUME pc[q] = "write", loaded[q] # None, loaded[q].sync = "synced",
               NEW r \in VisibleOrders(q)', r.id = loaded[q].id
        PROVE  r.sync = "synced"
    <2>1. r \in pend[q].orders \/ (r \in orders' /\ r.id \notin IdsOf(pend[q].orders))
      BY DEF VisibleOrders, Overlay
    <2>2. CASE r \in pend[q].orders
      BY <1>3, <2>2 DEF VisibleOrders, Overlay, AuditOfRun, AuditUnderWay
    <2>3. ASSUME NEW b \in orders, b.id = r.id, r.id \notin IdsOf(pend[q].orders)
          PROVE  b.sync = "synced"
      <3>1. b \in VisibleOrders(q)
        BY <2>3 DEF VisibleOrders, Overlay
      <3> QED BY <1>3, <2>3, <3>1 DEF AuditOfRun, AuditUnderWay
    <2>4. r.id \in UsedIds
      <3>1. PICK b \in VisibleOrders(q) : b.id = loaded[q].id
        BY <1>3 DEF KeyInv, Ledger!Kept
      <3>2. b \in orders \cup pend[q].orders
        BY DEF VisibleOrders, Overlay
      <3> QED BY <1>3, <3>1, <3>2 DEF UsedIds, IdsOf
    <2> QED BY <2>1, <2>2, <2>3, <2>4
  <1>4. ASSUME pc[q] = "items"
        PROVE  /\ \A w \in pend[q].orders : w.id = oid[q] /\ w.ver > 0 =>
                     w.ver = Head(batch[q]).ver \/ SuccessIn(audit' \cup pend[q].audit, w.key, w.ver)
               /\ loaded[q] = None =>
                     Ref(q) \notin KeysOf(orders') /\ ~CreatedIn(pend[q].audit, Ref(q))
    <2>1. Ref(q) \in KeysOf(pend[q].orders)
      BY <1>4 DEF ItemsOfRun, ItemsUnderWay, KeysOf
    <2>2. \A key, ver : SuccessIn(audit \cup pend[q].audit, key, ver)
                           => SuccessIn(audit' \cup pend[q].audit, key, ver)
      BY DEF SuccessIn
    <2> QED BY <1>4, <2>1, <2>2 DEF AuditOfRun, AuditUnderWay
  <1>5. Ref(q)' = Ref(q)
    BY DEF Ref
  <1>6. AuditUnderWay(q)'
    BY <1>3, <1>4, <1>5 DEF AuditUnderWay
  <1> QED BY <1>1, <1>2, <1>6 DEF AuditOfRun

\* Every step of a run but its commit.
LEMMA AuditQuiet ==
  ASSUME TypeOK, KeyInv, ItemsInv, AuditInv, NEW p \in Runners,
         RunnerStep(p) \/ Crash(p), ~Commit(p)
  PROVE  AuditInv'
  <1>1. orders' = orders /\ audit' = audit
    BY TablesKeep DEF tableVars
  <1>2. ItemsOfRun(p) /\ AuditOfRun(p)
    BY DEF ItemsInv, AuditInv
  <1>3. AuditOfRun(p)'
    <2>1. CASE \/ FetchExternalOrders(p) \/ ProductLookup(p) \/ SkipInvalid(p)
               \/ ResolveCustomer(p) \/ InsertCustomer(p) \/ SelectOrder(p)
      BY <1>2, <2>1, AuditEarly
    <2>2. CASE NormalizeRaises(p) \/ Crash(p)
      BY <2>2, AuditReset DEF NormalizeRaises, Crash
    <2>3. CASE \/ InsertCustomerRefused(p) \/ InsertOrderRefused(p) \/ AddItemRefused(p)
               \/ AddProductRefused(p) \/ DeadlockVictim(p)
      BY <1>2, <2>3, FailsAtWork, AuditFail
    <2>4. CASE InsertOrder(p) \/ UpdateOrder(p)
      BY <1>2, <2>4, AuditStore
    <2>5. CASE AddItem(p) \/ AddProductAndItem(p)
      BY <1>2, <2>5, AuditAdd
    <2>6. CASE FinishOrder(p)
      BY <1>2, <2>6, AuditFinish
    <2> QED BY <2>1, <2>2, <2>3, <2>4, <2>5, <2>6 DEF RunnerStep
  <1>4. ASSUME NEW q \in Runners \ {p} PROVE AuditOfRun(q)'
    <2>1. ItemsOfRun(q) /\ AuditOfRun(q)
      BY DEF ItemsInv, AuditInv
    <2>2. \A r \in orders' : \E b \in orders : b.id = r.id /\ b.sync = r.sync
      BY <1>1
    <2> QED BY <1>1, <2>1, <2>2, OthersKeep, AuditAside
  <1>5. AuditMatchesOrders'
    BY <1>1 DEF AuditInv, AuditMatchesOrders
  <1> QED BY <1>1, <1>3, <1>4, <1>5 DEF AuditInv

\* A commit stores the rows of a batch and their audits together.
LEMMA AuditCommit ==
  ASSUME TypeOK, KeyInv, ItemsInv, AuditInv, NEW p \in Runners, Commit(p)
  PROVE  AuditInv'
  <1> DEFINE W == pend[p]
  <1>1. /\ orders' = {r \in orders : r.id \notin IdsOf(W.orders)} \cup W.orders
        /\ audit' = audit \cup W.audit
        /\ Reset(p) /\ pc[p] = "loop"
    BY DEF Commit, Overlay
  <1>2. AuditedWrites(W, audit, orders, None)
    BY <1>1 DEF ItemsInv, ItemsOfRun, ItemsUnderWay, AuditInv, AuditOfRun
  <1>3. Compatible(orders, W.orders)
    BY DEF KeyInv
  <1>4. \A a \in W.audit : a.action = "created" => a.key \notin KeysOf(orders)
    BY <1>2 DEF AuditedWrites
  <1>5. \A a \in audit : a.action = "created" => a.key \in KeysOf(orders)
    BY DEF AuditInv, CreatedOnce, AuditMatchesOrders, KeysOf
  <1>6. CreatedOnce(audit')
    BY <1>1, <1>2, <1>4, <1>5 DEF AuditInv, AuditedWrites, CreatedOnce
  <1>7. ASSUME NEW o \in orders', o.ver > 0
        PROVE  \E a \in audit' : a.key = o.key /\ a.status = "success" /\ a.ver = o.ver
    <2>1. CASE o \in W.orders
      <3>1. o.id # None
        BY <2>1, ConstantsAssumption DEF TypeOK, WriteSet, OrderRow
      <3>2. SuccessIn(audit \cup W.audit, o.key, o.ver)
        BY <1>2, <1>7, <2>1, <3>1 DEF AuditedWrites
      <3> QED BY <1>1, <3>2 DEF SuccessIn
    <2>2. CASE o \in orders
      BY <1>1, <1>7, <2>2 DEF AuditInv, AuditMatchesOrders
    <2> QED BY <1>1, <2>1, <2>2
  <1>8. ASSUME NEW a \in audit', a.status = "success"
        PROVE  \E o \in orders' : o.key = a.key /\ o.sync = "synced"
    <2>1. CASE a \in W.audit
      BY <1>1, <1>2, <1>8, <2>1 DEF AuditedWrites, KeysOf
    <2>2. CASE a \in audit
      <3>1. PICK o \in orders : o.key = a.key /\ o.sync = "synced"
        BY <1>8, <2>2 DEF AuditInv, AuditMatchesOrders
      <3>2. CASE o.id \in IdsOf(W.orders)
        <4>1. PICK w \in W.orders : w.id = o.id
          BY <3>2 DEF IdsOf
        <4> QED BY <1>1, <1>2, <1>3, <3>1, <4>1 DEF Compatible, AuditedWrites
      <3>3. CASE o.id \notin IdsOf(W.orders)
        BY <1>1, <3>1, <3>3
      <3> QED BY <3>2, <3>3
    <2> QED BY <1>1, <2>1, <2>2
  <1>9. AuditMatchesOrders'
    BY <1>6, <1>7, <1>8 DEF AuditMatchesOrders, CreatedOnce
  <1>10. ASSUME NEW q \in Runners \ {p} PROVE AuditOfRun(q)'
    <2>1. ItemsOfRun(q) /\ AuditOfRun(q) /\ Disjoint(W.orders, pend[q].orders)
      BY DEF ItemsInv, AuditInv, KeyInv
    <2>2. KeysOf(orders') \cap KeysOf(pend[q].orders) \subseteq KeysOf(orders)
      BY <1>1, <2>1 DEF KeysOf, Disjoint
    <2>3. \A r \in orders' : r.sync = "synced" \/ \E b \in orders : b.id = r.id /\ b.sync = r.sync
      BY <1>1, <1>2 DEF AuditedWrites
    <2> QED BY <1>1, <2>1, <2>2, <2>3, OthersKeep, AuditAside DEF RunnerStep
  <1>11. AuditOfRun(p)'
    BY <1>1, AuditReset
  <1> QED BY <1>6, <1>9, <1>10, <1>11 DEF AuditInv

\* A step outside the runs that leaves the audits alone, keeps every order with
\* its version and whether it is synced, and adds local ones only.
LEMMA AuditEnv ==
  ASSUME KeyInv, ItemsInv, AuditInv, audit' = audit, UNCHANGED runVars,
         \A r \in orders' : \/ r.ver = 0 /\ r.id \notin UsedIds
                               /\ \A q \in Runners : r.key \notin KeysOf(pend[q].orders)
                            \/ \E b \in orders : /\ b.id = r.id /\ b.key = r.key
                                                 /\ b.ver = r.ver /\ b.sync = r.sync,
         \A b \in orders : \E r \in orders' : b.key = r.key /\ b.sync = r.sync
  PROVE  AuditInv'
  <1>1. UNCHANGED <<pend, save, pc, batch, loaded, oid>>
    BY DEF runVars
  <1>2. ASSUME NEW o \in orders', o.ver > 0
        PROVE  \E a \in audit' : a.key = o.key /\ a.status = "success" /\ a.ver = o.ver
    <2>1. PICK b \in orders : b.key = o.key /\ b.ver = o.ver
      BY <1>2
    <2> QED BY <1>2, <2>1 DEF AuditInv, AuditMatchesOrders
  <1>3. ASSUME NEW a \in audit', a.status = "success"
        PROVE  \E o \in orders' : o.key = a.key /\ o.sync = "synced"
    <2>1. PICK b \in orders : b.key = a.key /\ b.sync = "synced"
      BY <1>3 DEF AuditInv, AuditMatchesOrders
    <2> QED BY <2>1
  <1>4. AuditMatchesOrders'
    BY <1>2, <1>3 DEF AuditInv, AuditMatchesOrders
  <1>5. ASSUME NEW q \in Runners PROVE AuditOfRun(q)'
    <2>1. ItemsOfRun(q) /\ AuditOfRun(q)
      BY DEF ItemsInv, AuditInv
    <2>2. KeysOf(orders') \cap KeysOf(pend[q].orders) \subseteq KeysOf(orders)
      BY DEF KeysOf
    <2>3. \A r \in orders' : \/ \E b \in orders : b.id = r.id /\ b.sync = r.sync
                             \/ r.id \notin UsedIds
      OBVIOUS
    <2> QED BY <1>1, <2>1, <2>2, <2>3, AuditAside
  <1> QED BY <1>4, <1>5 DEF AuditInv

\* Every step keeps the invariant.
LEMMA AuditStep ==
  ASSUME TypeOK, KeyInv, ItemsInv, AuditInv, [Next]_vars
  PROVE  AuditInv'
  <1>1. ASSUME NEW p \in Runners, RunnerStep(p) \/ Crash(p) PROVE AuditInv'
    BY <1>1, AuditQuiet, AuditCommit
  <1>2. ASSUME NEW r, NEW e \in customers, CreateOrder(r, e) PROVE AuditInv'
    <2>1. NewId \notin UsedIds /\ audit' = audit /\ UNCHANGED runVars
      BY <1>2, NewIdFresh DEF CreateOrder
    <2>2. PICK key : /\ \A q \in Runners : key \notin KeysOf(pend[q].orders)
                     /\ orders' = orders \cup {PostedRow(NewId, key, e)}
      BY <1>2 DEF CreateOrder
    <2> DEFINE row == PostedRow(NewId, key, e)
    <2>3. row.id = NewId /\ row.key = key /\ row.ver = 0
      BY DEF PostedRow
    <2> HIDE DEF row
    <2>4. orders' = orders \cup {row}
      BY <2>2 DEF row
    <2> QED BY <2>1, <2>2, <2>3, <2>4, AuditEnv
  <1>3. ASSUME NEW c \in Clients, PatchWrite(c) PROVE AuditInv'
    <2>1. PICK f : /\ orders' = {f[r] : r \in orders}
                   /\ \A r \in orders : /\ f[r].id = r.id /\ f[r].key = r.key
                                        /\ f[r].ver = r.ver /\ f[r].sync = r.sync
      BY <1>3, PatchedRows
    <2>2. audit' = audit /\ UNCHANGED runVars
      BY <1>3 DEF PatchWrite
    <2> QED BY <2>1, <2>2, AuditEnv
  <1>4. ASSUME UNCHANGED tableVars, UNCHANGED runVars PROVE AuditInv'
    BY <1>4, AuditEnv DEF tableVars
  <1>5. CASE UNCHANGED vars
    BY <1>4, <1>5 DEF vars, tableVars, runVars
  <1> QED BY <1>1, <1>2, <1>3, <1>4, <1>5, RunsKeep, TablesKeepToo

\* Nothing is stored and nothing audited.
LEMMA AuditInit == Init => AuditInv
  BY AuditedNothing DEF Init, AuditInv, AuditOfRun, AuditUnderWay, AuditMatchesOrders, CreatedOnce

\* The invariants of rows, items and audits together.
LEMMA AuditInductive == Spec => [](TypeOK /\ KeyInv /\ ItemsInv /\ AuditInv)
  <1>1. TypeOK /\ KeyInv /\ ItemsInv /\ AuditInv /\ [Next]_vars => ItemsInv' /\ AuditInv'
    BY ItemsStep, AuditStep
  <1> QED BY <1>1, ItemsInit, AuditInit, TypeCorrect, KeysAgree, PTL DEF Spec

\* order_sync_audit is a true record, however runs of several replicas, posts
\* and patches interleave and wherever a run crashes or is rolled back: each
\* synced version has its success, each success its synced order, and an order
\* was created once.
THEOREM AuditIsTrue == Spec => []AuditMatchesOrders
  BY AuditInductive, PTL DEF AuditInv

-----------------------------------------------------------------------------
(* Upserts that failed.                                                    *)

\* The orders of a batch, or of what is left of it.
RefsOf(b) == {b[i].ref : i \in DOMAIN b}

FailedKeys(A) == {a.key : a \in {x \in A : x.status = "failed"}}

\* A write set holds neither an order it audits as failed nor, but for the
\* order open, one that is still ahead; what is ahead has not failed yet.
FailuresApart(W, ahead, open) ==
    /\ \A w \in W.orders : w.key \notin FailedKeys(W.audit)
    /\ \A w \in W.orders : w.id # open => w.key \notin ahead
    /\ FailedKeys(W.audit) \cap ahead = {}

\* A batch names each order once; a run that has not begun has written nothing.
FailuresOfRun(p) ==
    /\ \A i, j \in DOMAIN batch[p] : batch[p][i].ref = batch[p][j].ref => i = j
    /\ pc[p] = "idle" => pend[p] = NoWrites /\ save[p] = NoWrites
    /\ FailuresApart(pend[p], RefsOf(batch[p]), oid[p])
    /\ FailuresApart(save[p], RefsOf(batch[p]), None)

FailInv == \A p \in Runners : FailuresOfRun(p)

\* The rest of a batch that names each order once.
LEMMA RestOfBatch ==
  ASSUME NEW T, NEW b \in Seq(T), b # <<>>,
         \A i, j \in DOMAIN b : b[i].ref = b[j].ref => i = j
  PROVE  /\ \A i, j \in DOMAIN Tail(b) : Tail(b)[i].ref = Tail(b)[j].ref => i = j
         /\ RefsOf(Tail(b)) \subseteq RefsOf(b)
         /\ Head(b).ref \in RefsOf(b) /\ Head(b).ref \notin RefsOf(Tail(b))
  <1>1. DOMAIN b = 1..Len(b) /\ Len(b) \in Nat /\ Len(b) > 0 /\ Head(b) = b[1]
    OBVIOUS
  <1>2. DOMAIN Tail(b) = 1..(Len(b) - 1) /\ \A i \in 1..(Len(b) - 1) : Tail(b)[i] = b[i + 1]
    OBVIOUS
  <1>3. \A i \in DOMAIN Tail(b) : i \in Nat /\ i + 1 \in DOMAIN b /\ Tail(b)[i] = b[i + 1]
                                  /\ i + 1 # 1 /\ 1 \in DOMAIN b
    BY <1>1, <1>2
  <1>4. 1 \in DOMAIN b
    BY <1>1
  <1>5. ASSUME NEW i \in DOMAIN Tail(b), NEW j \in DOMAIN Tail(b), Tail(b)[i].ref = Tail(b)[j].ref
        PROVE  i = j
    <2>1. i + 1 = j + 1
      BY <1>3, <1>5
    <2> QED BY <1>3, <2>1
  <1>6. RefsOf(Tail(b)) \subseteq RefsOf(b)
    BY <1>3 DEF RefsOf
  <1>7. Head(b).ref \in RefsOf(b) /\ Head(b).ref \notin RefsOf(Tail(b))
    BY <1>1, <1>3, <1>4 DEF RefsOf
  <1> QED BY <1>5, <1>6, <1>7

\* Nothing has failed in a transaction that has written nothing.
LEMMA ApartNothing ==
  ASSUME NEW ahead, NEW open
  PROVE  FailuresApart(NoWrites, ahead, open)
  BY DEF FailuresApart, FailedKeys, NoWrites

\* Fewer orders are ahead, and audits that are no failures are added.
LEMMA ApartAlso ==
  ASSUME NEW V, NEW W, NEW ahead, NEW less, NEW open, FailuresApart(W, ahead, open),
         less \subseteq ahead, V.orders = W.orders,
         \A a \in V.audit : a.status = "failed" => a \in W.audit
  PROVE  FailuresApart(V, less, open)
  <1>1. FailedKeys(V.audit) \subseteq FailedKeys(W.audit)
    BY DEF FailedKeys
  <1> QED BY <1>1 DEF FailuresApart

LEMMA FailuresEarly ==
  ASSUME TypeOK, NEW p \in Runners, ItemsOfRun(p), FailuresOfRun(p),
         \/ ProductLookup(p) \/ SkipInvalid(p)
         \/ ResolveCustomer(p) \/ InsertCustomer(p) \/ SelectOrder(p)
  PROVE  FailuresOfRun(p)'
  <1> DEFINE a == AuditRow(None, "skip", "invalid", 0)
  <1>1. /\ pc[p] # "items" /\ oid' = oid /\ save'[p] \in {save[p], pend[p]}
        /\ pend'[p].orders = pend[p].orders
        /\ pend'[p].audit = pend[p].audit \/ pend'[p].audit = pend[p].audit \cup {a}
    BY EarlyWrites
  <1>2. oid[p] = None /\ FailuresApart(pend[p], RefsOf(batch[p]), None)
        /\ FailuresApart(save[p], RefsOf(batch[p]), None)
    BY <1>1 DEF FailuresOfRun, ItemsOfRun, ItemsUnderWay
  <1>3. a.status # "failed"
    BY DEF AuditRow
  <1> HIDE DEF a
  <1>4. /\ \A i, j \in DOMAIN batch'[p] : batch'[p][i].ref = batch'[p][j].ref => i = j
        /\ RefsOf(batch'[p]) \subseteq RefsOf(batch[p])
    <2>1. CASE SkipInvalid(p)
      <3>1. batch[p] \in Seq(Listed) /\ batch[p] # <<>> /\ batch'[p] = Tail(batch[p])
        BY <2>1 DEF SkipInvalid, TypeOK
      <3> QED BY <3>1, RestOfBatch DEF FailuresOfRun
    <2>2. CASE ~SkipInvalid(p)
      <3>1. batch' = batch
        BY <2>2 DEF ProductLookup, ResolveCustomer, InsertCustomer, SelectOrder
      <3> QED BY <3>1 DEF FailuresOfRun
    <2> QED BY <2>1, <2>2
  <1>5. pc'[p] # "idle"
    BY DEF ProductLookup, SkipInvalid, ResolveCustomer, InsertCustomer, SelectOrder, TypeOK
  <1>6. \A x \in pend'[p].audit : x.status = "failed" => x \in pend[p].audit
    BY <1>1, <1>3
  <1>7. FailuresApart(pend'[p], RefsOf(batch'[p]), None)
    BY <1>1, <1>2, <1>4, <1>6, ApartAlso
  <1>8. FailuresApart(save'[p], RefsOf(batch'[p]), None)
    BY <1>1, <1>2, <1>4, ApartAlso
  <1> QED BY <1>1, <1>2, <1>4, <1>5, <1>7, <1>8 DEF FailuresOfRun

\* The listing that is fetched names each order once.
LEMMA FailuresFetch ==
  ASSUME TypeOK, NEW p \in Runners, FailuresOfRun(p), FetchExternalOrders(p)
  PROVE  FailuresOfRun(p)'
  <1>1. PICK s \in Listings :
           batch' = [batch EXCEPT ![p] = [i \in DOMAIN s |-> [ref |-> s[i], ver |-> upstream[s[i]]]]]
    BY DEF FetchExternalOrders
  <1>2. batch'[p] = [i \in DOMAIN s |-> [ref |-> s[i], ver |-> upstream[s[i]]]]
    BY <1>1 DEF TypeOK
  <1>3. \A i, j \in DOMAIN s : s[i] = s[j] => i = j
    BY DEF Listings
  <1>4. \A i, j \in DOMAIN batch'[p] : batch'[p][i].ref = batch'[p][j].ref => i = j
    BY <1>2, <1>3
  <1>5. pend'[p] = NoWrites /\ save'[p] = NoWrites
    BY DEF FetchExternalOrders, FailuresOfRun
  <1> QED BY <1>4, <1>5, ApartNothing DEF FailuresOfRun

LEMMA FailuresReset ==
  ASSUME TypeOK, NEW p \in Runners, Reset(p)
  PROVE  FailuresOfRun(p)'
  <1>1. pend'[p] = NoWrites /\ save'[p] = NoWrites /\ batch'[p] = <<>>
    BY DEF Reset, TypeOK
  <1>2. \A i, j \in DOMAIN batch'[p] : batch'[p][i].ref = batch'[p][j].ref => i = j
    BY <1>1
  <1> QED BY <1>1, <1>2, ApartNothing DEF FailuresOfRun

\* The order that failed is not in the savepoint's write set, and not ahead.
LEMMA FailuresFail ==
  ASSUME TypeOK, NEW p \in Runners, FailuresOfRun(p), FailOrder(p), batch[p] # <<>>
  PROVE  FailuresOfRun(p)'
  <1> DEFINE a == AuditRow(Ref(p), "upsert", "failed", Head(batch[p]).ver)
  <1>1. /\ pend'[p].orders = save[p].orders /\ pend'[p].audit = save[p].audit \cup {a}
        /\ save'[p] = NoWrites /\ oid'[p] = None /\ pc'[p] = "loop"
        /\ batch'[p] = Tail(batch[p])
    BY FailWrites
  <1>2. a.key = Ref(p)
    BY DEF AuditRow
  <1> HIDE DEF a
  <1>3. batch[p] \in Seq(Listed)
    BY DEF TypeOK
  <1>4. /\ \A i, j \in DOMAIN batch'[p] : batch'[p][i].ref = batch'[p][j].ref => i = j
        /\ RefsOf(batch'[p]) \subseteq RefsOf(batch[p])
        /\ Ref(p) \in RefsOf(batch[p]) /\ Ref(p) \notin RefsOf(batch'[p])
    BY <1>1, <1>3, RestOfBatch DEF FailuresOfRun, Ref
  <1>5. FailedKeys(pend'[p].audit) \subseteq FailedKeys(save[p].audit) \cup {Ref(p)}
    BY <1>1, <1>2 DEF FailedKeys
  <1>6. \A w \in save[p].orders : w.id # None
    BY ConstantsAssumption DEF TypeOK, WriteSet, OrderRow
  <1>7. FailuresApart(pend'[p], RefsOf(batch'[p]), None)
    <2>1. FailuresApart(save[p], RefsOf(batch[p]), None)
      BY DEF FailuresOfRun
    <2>2. \A w \in save[p].orders : w.key \notin FailedKeys(save[p].audit) /\ w.key \notin RefsOf(batch[p])
      BY <1>6, <2>1 DEF FailuresApart
    <2>3. \A w \in pend'[p].orders : w.key \notin FailedKeys(pend'[p].audit) /\ w.key \notin RefsOf(batch'[p])
      <3>1. Ref(p) \in RefsOf(batch[p]) /\ RefsOf(batch'[p]) \subseteq RefsOf(batch[p])
        BY <1>4
      <3>2. pend'[p].orders = save[p].orders
        BY <1>1
      <3> QED BY <1>5, <2>2, <3>1, <3>2
    <2>4. FailedKeys(pend'[p].audit) \cap RefsOf(batch'[p]) = {}
      BY <1>4, <1>5, <2>1 DEF FailuresApart
    <2> QED BY <2>3, <2>4 DEF FailuresApart
  <1> QED BY <1>1, <1>4, <1>7, ApartNothing DEF FailuresOfRun

LEMMA FailuresStore ==
  ASSUME TypeOK, NEW p \in Runners, ItemsOfRun(p), FailuresOfRun(p), pc[p] = "write",
         NEW row, row.key = Ref(p), StoreOrder(p, row)
  PROVE  FailuresOfRun(p)'
  <1>1. /\ pend'[p].orders = Overlay(pend[p].orders, {row}) /\ pend'[p].audit = pend[p].audit
        /\ save' = save /\ batch' = batch /\ oid'[p] = row.id /\ pc'[p] = "items"
    BY StoreWrites
  <1>2. oid[p] = None /\ batch[p] \in Seq(Listed) /\ batch[p] # <<>>
    BY DEF ItemsOfRun, ItemsUnderWay, TypeOK, FlowOK
  <1>3. Ref(p) \in RefsOf(batch[p])
    BY <1>2, RestOfBatch DEF FailuresOfRun, Ref
  <1>4. \A w \in pend'[p].orders : w = row \/ (w \in pend[p].orders /\ w.id # row.id)
    BY <1>1 DEF Overlay, IdsOf
  <1>5. \A w \in pend[p].orders : w.id # None
    BY ConstantsAssumption DEF TypeOK, WriteSet, OrderRow
  <1>6. FailuresApart(pend'[p], RefsOf(batch[p]), row.id)
    BY <1>1, <1>2, <1>3, <1>4, <1>5 DEF FailuresOfRun, FailuresApart
  <1> QED BY <1>1, <1>6 DEF FailuresOfRun

LEMMA FailuresAdd ==
  ASSUME TypeOK, NEW p \in Runners, FailuresOfRun(p), AddItem(p) \/ AddProductAndItem(p)
  PROVE  FailuresOfRun(p)'
  <1>1. /\ pend'[p].orders = pend[p].orders /\ pend'[p].audit = pend[p].audit
        /\ pc[p] = "items" /\ pc' = pc /\ oid' = oid /\ save' = save /\ batch' = batch
    BY AddWrites
  <1>2. FailuresApart(pend'[p], RefsOf(batch[p]), oid[p])
    BY <1>1, ApartAlso DEF FailuresOfRun
  <1> QED BY <1>1, <1>2 DEF FailuresOfRun

LEMMA FailuresFinish ==
  ASSUME TypeOK, KeyInv, NEW p \in Runners, ItemsOfRun(p), FailuresOfRun(p), FinishOrder(p)
  PROVE  FailuresOfRun(p)'
  <1> DEFINE a == AuditRow(Ref(p), IF loaded[p] = None THEN "created" ELSE "updated",
                           "success", Head(batch[p]).ver)
  <1>1. /\ pc[p] = "items" /\ pc'[p] = "loop" /\ save'[p] = NoWrites /\ oid'[p] = None
        /\ pend'[p].audit = pend[p].audit \cup {a} /\ pend'[p].orders = pend[p].orders
        /\ batch'[p] = Tail(batch[p])
    BY FinishWrites
  <1>2. a.status # "failed"
    BY DEF AuditRow
  <1> HIDE DEF a
  <1>3. batch[p] \in Seq(Listed) /\ batch[p] # <<>>
    BY <1>1 DEF TypeOK, FlowOK
  <1>4. /\ \A i, j \in DOMAIN batch'[p] : batch'[p][i].ref = batch'[p][j].ref => i = j
        /\ RefsOf(batch'[p]) \subseteq RefsOf(batch[p])
        /\ Ref(p) \notin RefsOf(batch'[p])
    BY <1>1, <1>3, RestOfBatch DEF FailuresOfRun, Ref
  <1>5. PICK w \in pend[p].orders : w.id = oid[p] /\ w.key = Ref(p)
    BY <1>1 DEF ItemsOfRun, ItemsUnderWay
  <1>6. \A v \in pend[p].orders : v.id = oid[p] => v = w
    BY <1>5 DEF KeyInv, Ledger!Distinct
  <1>7. \A x \in pend'[p].audit : x.status = "failed" => x \in pend[p].audit
    BY <1>1, <1>2
  <1>8. FailuresApart(pend'[p], RefsOf(batch'[p]), oid[p])
    BY <1>1, <1>4, <1>7, ApartAlso DEF FailuresOfRun
  <1>9. FailuresApart(pend'[p], RefsOf(batch'[p]), None)
    BY <1>1, <1>4, <1>5, <1>6, <1>8 DEF FailuresApart
  <1> QED BY <1>1, <1>4, <1>9, ApartNothing DEF FailuresOfRun

\* Every step keeps the invariant.
LEMMA FailStep ==
  ASSUME TypeOK, KeyInv, ItemsInv, AuditInv, FailInv, [Next]_vars
  PROVE  FailInv'
  <1>1. ASSUME NEW p \in Runners, RunnerStep(p) \/ Crash(p) PROVE FailuresOfRun(p)'
    <2>1. ItemsOfRun(p) /\ FailuresOfRun(p)
      BY DEF ItemsInv, FailInv
    <2>2. CASE \/ ProductLookup(p) \/ SkipInvalid(p)
               \/ ResolveCustomer(p) \/ InsertCustomer(p) \/ SelectOrder(p)
      BY <2>1, <2>2, FailuresEarly
    <2>3. CASE FetchExternalOrders(p)
      BY <2>1, <2>3, FailuresFetch
    <2>4. CASE NormalizeRaises(p) \/ Crash(p) \/ Commit(p)
      BY <2>4, FailuresReset DEF NormalizeRaises, Crash, Commit
    <2>5. CASE \/ InsertCustomerRefused(p) \/ InsertOrderRefused(p) \/ AddItemRefused(p)
               \/ AddProductRefused(p) \/ DeadlockVictim(p)
      BY <2>1, <2>5, FailsAtWork, FailuresFail
    <2>6. CASE InsertOrder(p) \/ UpdateOrder(p)
      <3>1. PICK row \in OrderRow : StoreOrder(p, row) /\ row.key = Ref(p)
        BY <2>1, <2>6, StoredRow
      <3>2. pc[p] = "write"
        BY <2>6 DEF InsertOrder, UpdateOrder
      <3> QED BY <2>1, <3>1, <3>2, FailuresStore
    <2>7. CASE AddItem(p) \/ AddProductAndItem(p)
      BY <2>1, <2>7, FailuresAdd
    <2>8. CASE FinishOrder(p)
      BY <2>1, <2>8, FailuresFinish
    <2> QED BY <1>1, <2>2, <2>3, <2>4, <2>5, <2>6, <2>7, <2>8 DEF RunnerStep
  <1>2. ASSUME NEW q \in Runners, pend'[q] = pend[q], save'[q] = save[q], pc'[q] = pc[q],
               batch'[q] = batch[q], oid'[q] = oid[q]
        PROVE  FailuresOfRun(q)'
    BY <1>2 DEF FailInv, FailuresOfRun
  <1>3. ASSUME NEW p \in Runners, RunnerStep(p) \/ Crash(p), NEW q \in Runners \ {p}
        PROVE  FailuresOfRun(q)'
    BY <1>2, <1>3, OthersKeep
  <1>4. CASE UNCHANGED runVars
    BY <1>2, <1>4 DEF runVars, FailInv
  <1>5. CASE UNCHANGED vars
    BY <1>4, <1>5 DEF vars, runVars
  <1> QED BY <1>1, <1>3, <1>4, <1>5, RunsKeep DEF FailInv

LEMMA FailInit == Init => FailInv
  BY ApartNothing DEF Init, FailInv, FailuresOfRun

\* A commit leaves alone the row and the items of an order it audits as failed.
LEMMA CommitNoTrace ==
  ASSUME TypeOK, KeyInv, ItemsInv, FailInv, NEW p \in Runners, Commit(p),
         NEW a \in pend[p].audit, a.status = "failed"
  PROVE  /\ {o \in orders' : o.key = a.key} = {o \in orders : o.key = a.key}
         /\ {i \in items' : \E o \in orders' : i.order = o.id /\ o.key = a.key}
              = {i \in items : \E o \in orders : i.order = o.id /\ o.key = a.key}
  <1> DEFINE W == pend[p]
             same == {o \in orders : o.key = a.key}
  <1>1. /\ orders' = {r \in orders : r.id \notin IdsOf(W.orders)} \cup W.orders
        /\ items' = (items \ W.delItems) \cup W.insItems
    BY DEF Commit, Overlay, VisibleItems
  <1>2. \A w \in W.orders : w.key # a.key
    BY DEF FailInv, FailuresOfRun, FailuresApart, FailedKeys
  <1>3. \A o \in same : o.id \notin IdsOf(W.orders)
    <2>1. Compatible(orders, W.orders)
      BY DEF KeyInv
    <2>2. ASSUME NEW o \in same, NEW w \in W.orders PROVE w.id # o.id
      BY <1>2, <2>1 DEF Compatible
    <2> QED BY <2>2 DEF IdsOf
  <1>4. {o \in orders' : o.key = a.key} = same
    BY <1>1, <1>2, <1>3
  <1>5. \A i \in W.insItems \cup W.delItems : i.order \in IdsOf(W.orders)
    BY DEF ItemsInv, ItemsOfRun, WholeItems
  <1>6. \A o \in same : {i \in items' : i.order = o.id} = {i \in items : i.order = o.id}
    BY <1>1, <1>3, <1>5
  <1>7. {i \in items' : \E o \in orders' : i.order = o.id /\ o.key = a.key}
          = {i \in items' : \E o \in same : i.order = o.id}
    BY <1>4
  <1>8. {i \in items' : \E o \in same : i.order = o.id} = {i \in items : \E o \in same : i.order = o.id}
    BY <1>6
  <1> QED BY <1>4, <1>7, <1>8

\* A begin_nested block that failed leaves nothing behind, in a batch of any
\* length and whatever other runs commit meanwhile: the commit changes neither
\* the row nor the items of an order whose upsert it audits as failed.
THEOREM FailuresLeaveNoTrace == Spec => FailedUpsertLeavesNoTrace
  <1>1. TypeOK /\ KeyInv /\ ItemsInv /\ AuditInv /\ FailInv /\ [Next]_vars => FailInv'
    BY FailStep
  <1>2. TypeOK /\ KeyInv /\ ItemsInv /\ FailInv =>
           \A p \in Runners : Commit(p) =>
              \A a \in pend[p].audit : a.status = "failed" =>
                 /\ {o \in orders' : o.key = a.key} = {o \in orders : o.key = a.key}
                 /\ {i \in items' : \E o \in orders' : i.order = o.id /\ o.key = a.key}
                      = {i \in items : \E o \in orders : i.order = o.id /\ o.key = a.key}
    BY CommitNoTrace
  <1> QED BY <1>1, <1>2, FailInit, AuditInductive, PTL DEF Spec, FailedUpsertLeavesNoTrace

=============================================================================
