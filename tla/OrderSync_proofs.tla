-------------------------- MODULE OrderSync_proofs --------------------------
(***************************************************************************)
(* Proofs about OrderSync for any number of replicas, clients and orders,  *)
(* any order contents and any bounds.                                      *)
(***************************************************************************)
EXTENDS OrderSync, FiniteSetTheorems, TLAPS

\* The empty write set of a session that has just begun is a write set.
LEMMA NoWritesType == NoWrites \in WriteSet
  BY DEF NoWrites, WriteSet

\* Writing to one table of a write set.
LEMMA WriteItem ==
  ASSUME NEW w \in WriteSet, NEW i \in ItemRows
  PROVE  [w EXCEPT !.insItems = @ \cup {i}] \in WriteSet
  BY DEF WriteSet

\* A write set stays one when _resolve_product adds a product and its item ...
LEMMA WriteProductAndItem ==
  ASSUME NEW w \in WriteSet, NEW i \in ItemRows, NEW r \in Product
  PROVE  [w EXCEPT !.products = @ \cup {r}, !.insItems = @ \cup {i}] \in WriteSet
  BY DEF WriteSet

\* ... when an audit row is added ...
LEMMA WriteAudit ==
  ASSUME NEW w \in WriteSet, NEW a \in AuditRows
  PROVE  [w EXCEPT !.audit = @ \cup {a}] \in WriteSet
  BY DEF WriteSet

\* ... and when _resolve_customer adds a customer.
LEMMA WriteCustomer ==
  ASSUME NEW w \in WriteSet, NEW e \in Emails
  PROVE  [w EXCEPT !.customers = @ \cup {e}] \in WriteSet
  BY DEF WriteSet

\* A cached product stays one when keys are taken from it.
LEMMA Unkey ==
  ASSUME NEW c \in Product, NEW k
  PROVE  [c EXCEPT !.keys = @ \ k] \in Product
  BY DEF Product

\* A batch is a sequence, its head a published version of an order.
LEMMA HeadType ==
  ASSUME TypeOK, NEW p \in Runners, batch[p] # <<>>
  PROVE  /\ Head(batch[p]) \in Listed /\ Tail(batch[p]) \in Seq(Listed)
         /\ Ref(p) \in Refs /\ Head(batch[p]).ver \in Nat /\ Raw(p) \in Payloads
  <1>1. batch[p] \in Seq(Listed)
    BY DEF TypeOK
  <1>2. Head(batch[p]) \in Listed /\ Tail(batch[p]) \in Seq(Listed)
    BY <1>1
  <1>3. Ref(p) \in Refs /\ Head(batch[p]).ver \in Nat
    BY <1>2 DEF Listed, Ref
  <1>4. Raw(p) \in Payloads
    <2>1. Content[Ref(p)] \in Seq(Payloads)
      BY <1>3, ConstantsAssumption
    <2>2. Head(batch[p]).ver \in 1..Len(Content[Ref(p)])
      BY <1>2 DEF Listed, Ref
    <2> QED BY <2>1, <2>2 DEF Raw, Ref
  <1> QED BY <1>2, <1>3, <1>4

\* What the shop lists is a batch of published versions.
LEMMA ListingType ==
  ASSUME TypeOK, NEW s \in Listings
  PROVE  [i \in DOMAIN s |-> [ref |-> s[i], ver |-> upstream[s[i]]]] \in Seq(Listed)
  <1> DEFINE S == {r \in Refs : upstream[r] > 0}
  <1>1. IsFiniteSet(S)
    BY FS_Subset, ConstantsAssumption
  <1>2. Cardinality(S) \in Nat
    BY <1>1, FS_CardinalityType
  <1>3. s \in [1..Cardinality(S) -> S]
    BY DEF Listings
  <1>4. \A i \in 1..Cardinality(S) : [ref |-> s[i], ver |-> upstream[s[i]]] \in Listed
    <2> SUFFICES ASSUME NEW i \in 1..Cardinality(S)
                 PROVE  [ref |-> s[i], ver |-> upstream[s[i]]] \in Listed
      OBVIOUS
    <2>1. s[i] \in Refs /\ upstream[s[i]] > 0
      BY <1>3
    <2>2. upstream[s[i]] \in Nat /\ upstream[s[i]] <= Len(Content[s[i]])
      BY <2>1 DEF TypeOK
    <2>3. Content[s[i]] \in Seq(Payloads)
      BY <2>1, ConstantsAssumption
    <2> QED BY <2>1, <2>2, <2>3 DEF Listed
  <1> QED BY <1>2, <1>3, <1>4

\* The run's own variables after it ends.
LEMMA ResetType ==
  ASSUME TypeOK, NEW p \in Runners, Reset(p)
  PROVE  /\ pc' \in [Runners -> {"idle", "fetched", "loop", "newCustomer", "select", "write", "items"}]
         /\ batch' \in [Runners -> Seq(Listed)] /\ cache' \in [Runners -> SUBSET Product]
         /\ pend' \in [Runners -> WriteSet] /\ save' \in [Runners -> WriteSet]
         /\ cust' \in [Runners -> Emails \cup {None}] /\ oid' \in [Runners -> OrderIds \cup {None}]
         /\ loaded' \in [Runners -> OrderRow \cup {None}] /\ todo' \in [Runners -> Seq(Line)]
         /\ FlowOK'
  BY NoWritesType DEF TypeOK, FlowOK, Reset

\* Rolling back to a savepoint and auditing the failure keeps the types.
LEMMA FailOrderType ==
  ASSUME TypeOK, NEW p \in Runners, batch[p] # <<>>, FailOrder(p)
  PROVE  TypeOK'
  <1> USE DEF TypeOK
  <1>1. AuditRow(Ref(p), "upsert", "failed", Head(batch[p]).ver) \in AuditRows
    BY HeadType DEF AuditRow, AuditRows
  <1>2. [save[p] EXCEPT !.audit = @ \cup {AuditRow(Ref(p), "upsert", "failed", Head(batch[p]).ver)}] \in WriteSet
    BY <1>1, save[p] \in WriteSet, WriteAudit
  <1>3. pend' \in [Runners -> WriteSet] /\ save' \in [Runners -> WriteSet]
    BY <1>2, NoWritesType DEF FailOrder
  <1>4. batch' \in [Runners -> Seq(Listed)]
    BY HeadType DEF FailOrder
  <1>5. FlowOK'
    BY DEF FailOrder, FlowOK
  <1> QED
    BY <1>3, <1>4, <1>5 DEF FailOrder, shopVars, tableVars, envVars

\* StoreOrder keeps the types of the write set.
LEMMA StoreOrderType ==
  ASSUME TypeOK, NEW p \in Runners, NEW row \in OrderRow, pc[p] = "write",
         StoreOrder(p, row)
  PROVE  TypeOK'
  <1> USE DEF TypeOK
  <1>1. batch[p] # <<>> /\ cust[p] \in Emails
    BY DEF FlowOK
  <1>2. Raw(p).items \in Seq(Line)
    BY <1>1, HeadType DEF Payloads
  <1>3. pend[p] \in WriteSet
    OBVIOUS
  <1>4. pend'[p] \in WriteSet
    BY <1>3 DEF StoreOrder, WriteSet, Overlay
  <1>5. pend' \in [Runners -> WriteSet]
    BY <1>4 DEF StoreOrder
  <1>6. row.id \in OrderIds
    BY DEF OrderRow
  <1>7. FlowOK'
    BY <1>1, <1>6 DEF StoreOrder, FlowOK
  <1> QED
    BY <1>2, <1>5, <1>6, <1>7 DEF StoreOrder, shopVars, tableVars, envVars

\* The item rows a run writes.
LEMMA ItemRowType ==
  ASSUME TypeOK, NEW p \in Runners, pc[p] = "items", NEW sku \in CatalogKeys
  PROVE  ItemRow(p, sku, Len(Raw(p).items) - Len(todo[p]) + 1) \in ItemRows
  <1>1. batch[p] # <<>> /\ oid[p] \in OrderIds
    BY DEF TypeOK, FlowOK
  <1>2. Raw(p).items \in Seq(Line) /\ Head(batch[p]).ver \in Nat
    BY <1>1, HeadType DEF Payloads
  <1>3. todo[p] \in Seq(Line)
    BY DEF TypeOK
  <1>4. Len(Raw(p).items) - Len(todo[p]) + 1 \in Int
    BY <1>2, <1>3
  <1> QED BY <1>1, <1>2, <1>4 DEF ItemRow, ItemRows

\* So does adding an item of a product that is in the cache ...
LEMMA AddItemType ==
  ASSUME TypeOK, NEW p \in Runners, AddItem(p)
  PROVE  TypeOK'
  <1> USE DEF TypeOK
  <1>1. PICK r \in Lookup(p, Head(todo[p])) :
           pend' = [pend EXCEPT ![p].insItems = @ \cup
              {ItemRow(p, r.sku, Len(Raw(p).items) - Len(todo[p]) + 1)}]
    BY DEF AddItem
  <1>2. r.sku \in CatalogKeys
    BY <1>1 DEF Lookup, Product
  <1>3. pc[p] = "items" /\ todo[p] # <<>>
    BY DEF AddItem
  <1>4. ItemRow(p, r.sku, Len(Raw(p).items) - Len(todo[p]) + 1) \in ItemRows
    BY <1>2, <1>3, ItemRowType
  <1>5. [pend[p] EXCEPT !.insItems = @ \cup
            {ItemRow(p, r.sku, Len(Raw(p).items) - Len(todo[p]) + 1)}] \in WriteSet
    BY <1>4, WriteItem
  <1>6. pend' \in [Runners -> WriteSet]
    BY <1>1, <1>5
  <1>7. todo' \in [Runners -> Seq(Line)]
    BY <1>3 DEF AddItem
  <1>8. FlowOK'
    BY DEF AddItem, FlowOK
  <1> QED
    BY <1>6, <1>7, <1>8 DEF AddItem, shopVars, tableVars, envVars

\* ... or of one that has to be inserted first ...
LEMMA AddProductType ==
  ASSUME TypeOK, NEW p \in Runners, AddProductAndItem(p)
  PROVE  TypeOK'
  <1> USE DEF TypeOK
  <1> DEFINE r == NewProduct(Head(todo[p]))
             row == ItemRow(p, r.sku, Len(Raw(p).items) - Len(todo[p]) + 1)
  <1>1. pc[p] = "items" /\ todo[p] # <<>>
    BY DEF AddProductAndItem
  <1>2. Head(todo[p]) \in Line /\ Tail(todo[p]) \in Seq(Line)
    BY <1>1
  <1>3. r \in Product
    BY <1>2, ConstantsAssumption DEF NewProduct, Line, Product
  <1>4. r.sku \in CatalogKeys
    BY <1>3 DEF Product
  <1>5. row \in ItemRows
    BY <1>1, <1>4, ItemRowType
  <1> HIDE DEF r, row
  <1>6. pend' = [pend EXCEPT ![p].products = @ \cup {r}, ![p].insItems = @ \cup {row}]
    BY DEF AddProductAndItem, r, row
  <1>7. [pend[p] EXCEPT !.products = @ \cup {r}, !.insItems = @ \cup {row}] \in WriteSet
    BY <1>3, <1>5, WriteProductAndItem
  <1>8. pend' \in [Runners -> WriteSet]
    BY <1>6, <1>7
  <1>9. cache' \in [Runners -> SUBSET Product]
    <2>1. cache' = [cache EXCEPT ![p] = {[c EXCEPT !.keys = @ \ r.keys] : c \in @} \cup {r}]
      BY DEF AddProductAndItem, r
    <2>2. \A c \in cache[p] : [c EXCEPT !.keys = @ \ r.keys] \in Product
      BY Unkey
    <2> QED BY <1>3, <2>1, <2>2
  <1>10. FlowOK'
    BY DEF AddProductAndItem, FlowOK
  <1> QED
    BY <1>2, <1>8, <1>9, <1>10 DEF AddProductAndItem, shopVars, tableVars, envVars

\* ... the audit that ends an order ...
LEMMA FinishOrderType ==
  ASSUME TypeOK, NEW p \in Runners, FinishOrder(p)
  PROVE  TypeOK'
  <1> USE DEF TypeOK
  <1> DEFINE a == AuditRow(Ref(p), IF loaded[p] = None THEN "created" ELSE "updated",
                           "success", Head(batch[p]).ver)
  <1>1. batch[p] # <<>>
    BY DEF FinishOrder, FlowOK
  <1>2. a \in AuditRows
    BY <1>1, HeadType DEF AuditRow, AuditRows
  <1> HIDE DEF a
  <1>3. [pend[p] EXCEPT !.audit = @ \cup {a}] \in WriteSet
    BY <1>2, WriteAudit
  <1>4. pend' = [pend EXCEPT ![p].audit = @ \cup {a}]
    BY DEF FinishOrder, a
  <1>5. pend' \in [Runners -> WriteSet]
    BY <1>3, <1>4
  <1>6. batch' \in [Runners -> Seq(Listed)]
    BY <1>1, HeadType DEF FinishOrder
  <1>7. FlowOK'
    BY DEF FinishOrder, FlowOK
  <1> QED
    BY <1>5, <1>6, <1>7, NoWritesType DEF FinishOrder, shopVars, tableVars, envVars

\* ... and the commit.
LEMMA CommitType ==
  ASSUME TypeOK, NEW p \in Runners, Commit(p)
  PROVE  TypeOK'
  <1> USE DEF TypeOK
  <1>1. pend[p] \in WriteSet
    OBVIOUS
  <1>2. /\ orders' \subseteq OrderRow /\ customers' \subseteq Emails
        /\ products' \subseteq Product /\ items' \subseteq ItemRows
        /\ audit' \subseteq AuditRows
    BY <1>1 DEF Commit, WriteSet, Overlay, VisibleCustomers, VisibleProducts, VisibleItems
  <1>3. Reset(p)
    BY DEF Commit
  <1> QED
    BY <1>2, <1>3, ResetType DEF Commit, shopVars, envVars

\* UPDATE keeps the type of the row, its id and its key.
LEMMA DirtyUpdateType ==
  ASSUME NEW r \in OrderRow, NEW old \in OrderRow, NEW new \in OrderRow
  PROVE  /\ DirtyUpdate(r, old, new) \in OrderRow
         /\ DirtyUpdate(r, old, new).id = r.id /\ DirtyUpdate(r, old, new).key = r.key
  <1>1. /\ Dirty(r.cust, old.cust, new.cust) \in Emails
        /\ Dirty(r.status, old.status, new.status) \in Statuses
        /\ Dirty(r.backlog, old.backlog, new.backlog) \in {"backlog", "current"}
        /\ Dirty(r.ver, old.ver, new.ver) \in Nat
        /\ Dirty(r.sync, old.sync, new.sync) \in {"local", "synced"}
    BY DEF Dirty, OrderRow
  <1> QED BY <1>1 DEF DirtyUpdate, OrderRow

\* The columns _upsert_order computes make a row with its id and source key.
LEMMA SyncedColumnsType ==
  ASSUME TypeOK, NEW p \in Runners, pc[p] = "write", NEW id \in OrderIds
  PROVE  SyncedColumns(p, id) \in OrderRow /\ SyncedColumns(p, id).id = id
         /\ SyncedColumns(p, id).key = Ref(p)
  <1>1. batch[p] # <<>> /\ cust[p] \in Emails
    BY DEF TypeOK, FlowOK
  <1>2. Raw(p).status \in Statuses /\ Ref(p) \in Refs /\ Head(batch[p]).ver \in Nat
    BY <1>1, HeadType DEF Payloads
  <1> QED
    BY <1>1, <1>2 DEF SyncedColumns, OrderRow, Keys, Backlog

\* A new surrogate key is one that neither the table nor a transaction uses.
LEMMA NewIdFresh ==
  ASSUME FreshIds # {}
  PROVE  NewId \in OrderIds /\ NewId \notin UsedIds
  BY DEF FreshIds, NewId

\* The empty database is well typed.
LEMMA InitType == Init => TypeOK
  BY NoWritesType, ConstantsAssumption DEF Init, TypeOK, FlowOK

\* Steps of one run.
LEMMA RunnerStepType ==
  ASSUME TypeOK, NEW p \in Runners, RunnerStep(p)
  PROVE  TypeOK'
  <1>1. CASE FetchExternalOrders(p)
    <2>1. PICK s \in Listings :
             batch' = [batch EXCEPT ![p] =
                [i \in DOMAIN s |-> [ref |-> s[i], ver |-> upstream[s[i]]]]]
      BY <1>1 DEF FetchExternalOrders
    <2>2. batch' \in [Runners -> Seq(Listed)]
      BY <2>1, ListingType DEF TypeOK
    <2>3. FlowOK'
      BY <1>1, <2>1 DEF FetchExternalOrders, FlowOK, TypeOK
    <2> QED
      BY <1>1, <2>2, <2>3 DEF FetchExternalOrders, TypeOK, shopVars, tableVars, envVars
  <1>2. CASE ProductLookup(p)
    BY <1>2 DEF ProductLookup, TypeOK, FlowOK, shopVars, tableVars, envVars
  <1>3. CASE NormalizeRaises(p)
    BY <1>3, ResetType DEF NormalizeRaises, TypeOK, shopVars, tableVars, envVars
  <1>4. CASE SkipInvalid(p)
    <2>1. batch[p] # <<>> /\ pc[p] = "loop"
      BY <1>4 DEF SkipInvalid
    <2>2. AuditRow(None, "skip", "invalid", 0) \in AuditRows
      BY DEF AuditRow, AuditRows
    <2>3. [pend[p] EXCEPT !.audit = @ \cup {AuditRow(None, "skip", "invalid", 0)}] \in WriteSet
      BY <2>2, WriteAudit DEF TypeOK
    <2>4. pend' \in [Runners -> WriteSet]
      BY <1>4, <2>3 DEF SkipInvalid, TypeOK
    <2>5. batch' \in [Runners -> Seq(Listed)]
      BY <1>4, <2>1, HeadType DEF SkipInvalid, TypeOK
    <2>6. FlowOK'
      BY <1>4, <2>1 DEF SkipInvalid, FlowOK, TypeOK
    <2> QED
      BY <1>4, <2>4, <2>5, <2>6 DEF SkipInvalid, TypeOK, shopVars, tableVars, envVars
  <1>5. CASE ResolveCustomer(p)
    <2>1. batch[p] # <<>>
      BY <1>5 DEF ResolveCustomer
    <2>2. Raw(p).email \in Emails \cup {None}
      BY <2>1, HeadType DEF Payloads
    <2>3. save' \in [Runners -> WriteSet]
      BY <1>5 DEF ResolveCustomer, TypeOK
    <2>4. cust' \in [Runners -> Emails \cup {None}]
      BY <1>5, <2>2 DEF ResolveCustomer, TypeOK
    <2>6. FlowOK'
      BY <1>5, <2>1, <2>2 DEF ResolveCustomer, FlowOK, TypeOK
    <2>5. pc' \in [Runners -> {"idle", "fetched", "loop", "newCustomer", "select", "write", "items"}]
      BY <1>5 DEF ResolveCustomer, TypeOK
    <2> QED
      BY <1>5, <2>3, <2>4, <2>5, <2>6 DEF ResolveCustomer, TypeOK, shopVars, tableVars, envVars
  <1>6. CASE InsertCustomer(p)
    <2>1. batch[p] # <<>>
      BY <1>6 DEF InsertCustomer, TypeOK, FlowOK
    <2>2. CustomerEmail(p) \in Emails
      BY <2>1, HeadType, ConstantsAssumption DEF CustomerEmail, Payloads
    <2>3. [pend[p] EXCEPT !.customers = @ \cup {CustomerEmail(p)}] \in WriteSet
      BY <2>2, WriteCustomer DEF TypeOK
    <2>4. pend' \in [Runners -> WriteSet]
      BY <1>6, <2>3 DEF InsertCustomer, TypeOK
    <2>5. FlowOK'
      BY <1>6, <2>1, <2>2 DEF InsertCustomer, FlowOK, TypeOK
    <2> QED
      BY <1>6, <2>2, <2>4, <2>5 DEF InsertCustomer, TypeOK, shopVars, tableVars, envVars
  <1>7. CASE \/ InsertCustomerRefused(p) \/ InsertOrderRefused(p)
             \/ AddItemRefused(p) \/ AddProductRefused(p)
    <2>1. FailOrder(p) /\ batch[p] # <<>>
      BY <1>7 DEF InsertCustomerRefused, InsertOrderRefused, AddItemRefused,
                  AddProductRefused, TypeOK, FlowOK
    <2> QED BY <2>1, FailOrderType
  <1>8. CASE SelectOrder(p)
    <2>1. VisibleOrders(p) \subseteq OrderRow
      BY DEF VisibleOrders, Overlay, TypeOK, WriteSet
    <2>2. loaded' \in [Runners -> OrderRow \cup {None}]
      BY <1>8, <2>1 DEF SelectOrder, TypeOK, KeysOf
    <2>3. FlowOK'
      BY <1>8 DEF SelectOrder, FlowOK, TypeOK
    <2> QED
      BY <1>8, <2>2, <2>3 DEF SelectOrder, TypeOK, shopVars, tableVars, envVars
  <1>9. CASE InsertOrder(p)
    BY <1>9, NewIdFresh, SyncedColumnsType, StoreOrderType DEF InsertOrder
  <1>10. CASE UpdateOrder(p)
    <2>1. pc[p] = "write" /\ loaded[p] # None
      BY <1>10 DEF UpdateOrder
    <2>2. PICK current \in VisibleOrders(p) :
             /\ current.id = loaded[p].id
             /\ StoreOrder(p, DirtyUpdate(current, loaded[p], SyncedColumns(p, current.id)))
      BY <1>10 DEF UpdateOrder
    <2>3. current \in OrderRow /\ current.id \in OrderIds /\ loaded[p] \in OrderRow
      BY <2>1 DEF VisibleOrders, Overlay, TypeOK, WriteSet, OrderRow
    <2>4. DirtyUpdate(current, loaded[p], SyncedColumns(p, current.id)) \in OrderRow
      BY <2>1, <2>3, SyncedColumnsType, DirtyUpdateType
    <2> QED BY <2>1, <2>2, <2>4, StoreOrderType
  <1>11. CASE AddItem(p)
    BY <1>11, AddItemType
  <1>12. CASE AddProductAndItem(p)
    BY <1>12, AddProductType
  <1>13. CASE FinishOrder(p)
    BY <1>13, FinishOrderType
  <1>14. CASE Commit(p)
    BY <1>14, CommitType
  <1>15. CASE DeadlockVictim(p)
    <2>1. WaitsFor(p) # {} /\ FailOrder(p)
      BY <1>15 DEF DeadlockVictim
    <2>2. pc[p] \in {"newCustomer", "write", "items"}
      BY <2>1 DEF WaitsFor
    <2>3. batch[p] # <<>>
      BY <2>2 DEF TypeOK, FlowOK
    <2> QED BY <2>1, <2>3, FailOrderType
  <1> QED
    BY <1>1, <1>2, <1>3, <1>4, <1>5, <1>6, <1>7, <1>8, <1>9, <1>10, <1>11, <1>12,
       <1>13, <1>14, <1>15 DEF RunnerStep

\* An answer of create_order is appended to the answers.
LEMMA ReplyType ==
  ASSUME TypeOK, NEW r \in Refs \cup {None}, NEW id \in OrderIds \cup {None},
         NEW result \in {"created", "conflict", "unauthorized", "error"}, Reply(r, result, id)
  PROVE  replies' \in Seq(ReplyRecord)
  <1>1. [ref |-> r, result |-> result, id |-> id] \in ReplyRecord
    BY DEF ReplyRecord
  <1>2. replies \in Seq(ReplyRecord)
    BY DEF TypeOK
  <1> QED BY <1>1, <1>2 DEF Reply

\* Steps of the shop, the order routes and the faults.
LEMMA EnvStepType ==
  ASSUME TypeOK, Next, ~ \E p \in Runners : RunnerStep(p)
  PROVE  TypeOK'
  <1> USE DEF TypeOK
  <1>1. ASSUME NEW p \in Runners, FetchFails(p) PROVE TypeOK'
    BY <1>1 DEF FetchFails, FlowOK, shopVars, tableVars, runVars
  <1>2. ASSUME NEW p \in Runners, Crash(p) PROVE TypeOK'
    BY <1>2, ResetType DEF Crash, shopVars, tableVars
  <1>3. ASSUME NEW r \in Refs, Publish(r) PROVE TypeOK'
    <2>1. Content[r] \in Seq(Payloads)
      BY ConstantsAssumption
    <2>2. upstream' \in [Refs -> Nat] /\ \A x \in Refs : upstream'[x] <= Len(Content[x])
      BY <1>3, <2>1 DEF Publish
    <2> QED
      BY <1>3, <2>2 DEF Publish, FlowOK, tableVars, runVars, envVars
  <1>4. ASSUME NEW r \in Refs \cup {None}, CreateOrderRejected(r) \/ CreateOrderConflict(r)
        PROVE TypeOK'
    <2>1. replies' \in Seq(ReplyRecord)
      BY <1>4, ReplyType DEF CreateOrderRejected, CreateOrderConflict
    <2> QED
      BY <1>4, <2>1 DEF CreateOrderRejected, CreateOrderConflict, FlowOK, shopVars, tableVars, runVars
  <1>5. ASSUME NEW r \in Refs \cup {None}, NEW e \in customers, CreateOrder(r, e)
        PROVE TypeOK'
    <2>1. NewId \in OrderIds
      BY <1>5, NewIdFresh DEF CreateOrder
    <2>2. PICK key \in SourceRefs(r), sku \in SkusOf(products) \cup {None} :
             /\ orders' = orders \cup {PostedRow(NewId, key, e)}
             /\ items' = items \cup
                   {[order |-> NewId, by |-> None, ver |-> 0, pos |-> 1, sku |-> sku]}
      BY <1>5 DEF CreateOrder
    <2>3. key \in Keys
      BY ConstantsAssumption DEF SourceRefs, Keys
    <2>4. PostedRow(NewId, key, e) \in OrderRow
      BY <2>1, <2>3, ConstantsAssumption DEF PostedRow, OrderRow
    <2>5. [order |-> NewId, by |-> None, ver |-> 0, pos |-> 1, sku |-> sku] \in ItemRows
      BY <2>1 DEF ItemRows, SkusOf, Product
    <2>6. replies' \in Seq(ReplyRecord)
      BY <1>5, <2>1, ReplyType DEF CreateOrder
    <2> QED
      BY <1>5, <2>2, <2>4, <2>5, <2>6 DEF CreateOrder, FlowOK, shopVars, runVars
  <1>6. ASSUME NEW c \in Clients, NEW row \in orders, NEW s \in PatchStatuses, PatchRead(c, row, s)
        PROVE TypeOK'
    <2>1. [row |-> row, status |-> s] \in [row : OrderRow, status : Statuses]
      BY ConstantsAssumption
    <2>2. patch' \in [Clients -> [row : OrderRow, status : Statuses] \cup {None}]
      BY <1>6, <2>1 DEF PatchRead
    <2> QED
      BY <1>6, <2>2 DEF PatchRead, FlowOK, shopVars, tableVars, runVars
  <1>7. ASSUME NEW c \in Clients, PatchWrite(c) PROVE TypeOK'
    <2>1. patch[c] \in [row : OrderRow, status : Statuses]
      BY <1>7 DEF PatchWrite
    <2> DEFINE old == patch[c].row
               new == [old EXCEPT !.status = patch[c].status,
                                  !.backlog = Backlog(patch[c].status, PatchBacklogStatuses)]
    <2>2. old \in OrderRow /\ new \in OrderRow
      BY <2>1 DEF OrderRow, Backlog
    <2> HIDE DEF old, new
    <2>3. \A r \in orders : DirtyUpdate(r, old, new) \in OrderRow
      BY <2>2, DirtyUpdateType
    <2>4. orders' = {IF r.id = old.id THEN DirtyUpdate(r, old, new) ELSE r : r \in orders}
      BY <1>7 DEF PatchWrite, old, new
    <2>5. orders' \subseteq OrderRow
      BY <2>3, <2>4
    <2> QED
      BY <1>7, <2>5 DEF PatchWrite, FlowOK, shopVars, runVars
  <1> QED
    BY <1>1, <1>2, <1>3, <1>4, <1>5, <1>6, <1>7 DEF Next

\* Type correctness of the order pipeline, for every value of the constants.
THEOREM TypeCorrect == Spec => []TypeOK
  <1>1. Init => TypeOK
    BY InitType
  <1>2. TypeOK /\ [Next]_vars => TypeOK'
    <2> SUFFICES ASSUME TypeOK, [Next]_vars PROVE TypeOK'
      OBVIOUS
    <2>1. CASE Next
      BY <2>1, RunnerStepType, EnvStepType
    <2>2. CASE UNCHANGED vars
      BY <2>2 DEF vars, TypeOK, FlowOK
    <2> QED BY <2>1, <2>2
  <1> QED
    BY <1>1, <1>2, PTL DEF Spec

-----------------------------------------------------------------------------
(* Keys.                                                                   *)

\* A step of p that commits nothing and does not widen p's write set, or that
\* only selects a row, keeps the invariant.
LEMMA KeyInvShrink ==
  ASSUME KeyInv, NEW p \in Runners, orders' = orders,
         \A q \in Runners \ {p} : /\ pend'[q] = pend[q] /\ save'[q] = save[q]
                                  /\ pc'[q] = pc[q] /\ loaded'[q] = loaded[q]
                                  /\ batch'[q] = batch[q],
         Ledger!Distinct(pend'[p].orders), Ledger!Kept(pend'[p].orders, pend[p].orders),
         Ledger!Distinct(save'[p].orders), Ledger!Kept(save'[p].orders, pend'[p].orders),
         pc'[p] = "write" /\ loaded'[p] # None =>
            loaded'[p].key = Ref(p)' /\ Ledger!Kept({loaded'[p]}, VisibleOrders(p)')
  PROVE  KeyInv'
  <1>1. Ledger!Distinct(orders')
    BY DEF KeyInv
  <1>2. ASSUME NEW q \in Runners
        PROVE  /\ Ledger!Distinct(pend'[q].orders) /\ Ledger!Distinct(save'[q].orders)
               /\ Ledger!Kept(save'[q].orders, pend'[q].orders)
    BY DEF KeyInv
  <1>3. ASSUME NEW q \in Runners PROVE Compatible(orders', pend'[q].orders)
    <2>1. CASE q = p
      BY <2>1 DEF KeyInv, Compatible, Ledger!Kept
    <2>2. CASE q # p
      BY <2>2 DEF KeyInv
    <2> QED BY <2>1, <2>2
  <1>4. ASSUME NEW q \in Runners, NEW r \in Runners \ {q}
        PROVE  Disjoint(pend'[q].orders, pend'[r].orders)
    <2>1. Disjoint(pend[q].orders, pend[r].orders)
      BY DEF KeyInv
    <2>2. CASE q = p
      BY <2>1, <2>2 DEF Disjoint, Ledger!Kept
    <2>3. CASE r = p
      BY <2>1, <2>3 DEF Disjoint, Ledger!Kept
    <2>4. CASE q # p /\ r # p
      BY <2>1, <2>4
    <2> QED BY <2>2, <2>3, <2>4
  <1>5. ASSUME NEW q \in Runners, pc'[q] = "write", loaded'[q] # None
        PROVE  loaded'[q].key = Ref(q)' /\ Ledger!Kept({loaded'[q]}, VisibleOrders(q)')
    <2>1. CASE q = p
      BY <1>5, <2>1
    <2>2. CASE q # p
      BY <1>5, <2>2 DEF KeyInv, Ref, VisibleOrders
    <2> QED BY <2>1, <2>2
  <1> QED
    BY <1>1, <1>2, <1>3, <1>4, <1>5 DEF KeyInv

\* The same when p's row columns do not change at all.
LEMMA KeyInvFrame ==
  ASSUME TypeOK, KeyInv, NEW p \in Runners, orders' = orders,
         \A q \in Runners \ {p} : /\ pend'[q] = pend[q] /\ save'[q] = save[q]
                                  /\ pc'[q] = pc[q] /\ loaded'[q] = loaded[q]
                                  /\ batch'[q] = batch[q],
         pend'[p].orders = pend[p].orders,
         save'[p].orders \in {save[p].orders, pend[p].orders, {}},
         pc'[p] # "write"
  PROVE  KeyInv'
  <1>1. Ledger!Distinct(pend'[p].orders) /\ Ledger!Distinct(save'[p].orders)
    BY DEF KeyInv, Ledger!Distinct
  <1>2. Ledger!Kept(pend'[p].orders, pend[p].orders) /\ Ledger!Kept(save'[p].orders, pend'[p].orders)
    BY DEF KeyInv, Ledger!Kept
  <1> QED BY <1>1, <1>2, KeyInvShrink

\* Rolling back to the savepoint, and rolling back everything.
LEMMA KeyInvFail ==
  ASSUME TypeOK, KeyInv, NEW p \in Runners, FailOrder(p)
  PROVE  KeyInv'
  <1>1. pend'[p].orders = save[p].orders /\ save'[p].orders = {}
    BY DEF FailOrder, TypeOK, WriteSet, NoWrites
  <1>2. Ledger!Distinct(pend'[p].orders) /\ Ledger!Kept(pend'[p].orders, pend[p].orders)
    BY <1>1 DEF KeyInv
  <1>3. Ledger!Distinct(save'[p].orders) /\ Ledger!Kept(save'[p].orders, pend'[p].orders)
    BY <1>1 DEF Ledger!Distinct, Ledger!Kept
  <1>4. orders' = orders /\ pc'[p] = "loop"
    BY DEF FailOrder, tableVars, TypeOK
  <1>5. \A q \in Runners \ {p} : /\ pend'[q] = pend[q] /\ save'[q] = save[q]
                                 /\ pc'[q] = pc[q] /\ loaded'[q] = loaded[q]
                                 /\ batch'[q] = batch[q]
    BY DEF FailOrder, TypeOK
  <1> QED BY <1>2, <1>3, <1>4, <1>5, KeyInvShrink

\* A run that ends without a commit gives up its rows.
LEMMA KeyInvReset ==
  ASSUME TypeOK, KeyInv, NEW p \in Runners, Reset(p), orders' = orders
  PROVE  KeyInv'
  <1>1. pend'[p].orders = {} /\ save'[p].orders = {} /\ pc'[p] = "idle"
    BY DEF Reset, TypeOK, NoWrites
  <1>2. Ledger!Distinct(pend'[p].orders) /\ Ledger!Kept(pend'[p].orders, pend[p].orders)
    BY <1>1 DEF Ledger!Distinct, Ledger!Kept
  <1>3. Ledger!Distinct(save'[p].orders) /\ Ledger!Kept(save'[p].orders, pend'[p].orders)
    BY <1>1 DEF Ledger!Distinct, Ledger!Kept
  <1>5. \A q \in Runners \ {p} : /\ pend'[q] = pend[q] /\ save'[q] = save[q]
                                 /\ pc'[q] = pc[q] /\ loaded'[q] = loaded[q]
                                 /\ batch'[q] = batch[q]
    BY DEF Reset, TypeOK
  <1> QED BY <1>1, <1>2, <1>3, <1>5, KeyInvShrink

\* Storing a row whose id and key are one row's, or nobody's.
LEMMA KeyInvStore ==
  ASSUME TypeOK, KeyInv, NEW p \in Runners, NEW row \in OrderRow, StoreOrder(p, row),
         \A a \in orders : a.id = row.id <=> a.key = row.key,
         \A a \in pend[p].orders : a.id = row.id <=> a.key = row.key,
         \A q \in Runners \ {p} : \A b \in pend[q].orders : b.id # row.id /\ b.key # row.key
  PROVE  KeyInv'
  <1> DEFINE W == pend[p].orders
             W1 == {a \in W : a.id # row.id} \cup {row}
  <1>1. pend'[p].orders = W1
    <2>1. pend \in [Runners -> WriteSet] /\ pend[p] \in WriteSet
      BY DEF TypeOK
    <2>2. pend'[p].orders = Overlay(pend[p].orders, {row})
      BY <2>1 DEF StoreOrder, WriteSet
    <2> QED BY <2>2 DEF Overlay, IdsOf
  <1>2. \A q \in Runners \ {p} : pend'[q] = pend[q]
    BY DEF StoreOrder, TypeOK
  <1>3. /\ orders' = orders /\ save' = save /\ loaded' = loaded /\ batch' = batch
        /\ pc'[p] = "items" /\ \A q \in Runners \ {p} : pc'[q] = pc[q]
    BY DEF StoreOrder, TypeOK, tableVars
  <1>4. Ledger!Distinct(W1)
    BY DEF KeyInv, Ledger!Distinct
  <1>5. Compatible(orders, W1)
    BY DEF KeyInv, Compatible
  <1>6. \A q \in Runners \ {p} : Disjoint(W1, pend[q].orders) /\ Disjoint(pend[q].orders, W1)
    <2> SUFFICES ASSUME NEW q \in Runners \ {p}, NEW a \in W1, NEW b \in pend[q].orders
                 PROVE  a.id # b.id /\ a.key # b.key
      BY DEF Disjoint
    <2>1. CASE a = row
      BY <2>1
    <2>2. CASE a \in W
      <3>1. Disjoint(pend[p].orders, pend[q].orders)
        BY DEF KeyInv
      <3> QED BY <2>2, <3>1 DEF Disjoint
    <2> QED BY <2>1, <2>2
  <1>7. Ledger!Kept(save[p].orders, W1)
    BY DEF KeyInv, Ledger!Kept
  <1> HIDE DEF W, W1
  <1>8. ASSUME NEW q \in Runners
        PROVE  /\ Ledger!Distinct(pend'[q].orders) /\ Ledger!Distinct(save'[q].orders)
               /\ Compatible(orders', pend'[q].orders)
               /\ Ledger!Kept(save'[q].orders, pend'[q].orders)
    BY <1>1, <1>2, <1>3, <1>4, <1>5, <1>7 DEF KeyInv
  <1>9. ASSUME NEW q \in Runners, NEW r \in Runners \ {q}
        PROVE  Disjoint(pend'[q].orders, pend'[r].orders)
    BY <1>1, <1>2, <1>6 DEF KeyInv
  <1>10. ASSUME NEW q \in Runners, pc'[q] = "write", loaded'[q] # None
         PROVE  loaded'[q].key = Ref(q)' /\ Ledger!Kept({loaded'[q]}, VisibleOrders(q)')
    <2>1. q # p
      BY <1>3, <1>10
    <2> QED
      BY <1>2, <1>3, <1>10, <2>1 DEF KeyInv, Ref, VisibleOrders
  <1>11. Ledger!Distinct(orders')
    BY <1>3 DEF KeyInv
  <1> QED
    BY <1>8, <1>9, <1>10, <1>11 DEF KeyInv

\* An INSERT uses a fresh id and a key nobody has.
LEMMA KeyInvInsert ==
  ASSUME TypeOK, KeyInv, NEW p \in Runners, InsertOrder(p)
  PROVE  KeyInv'
  <1> DEFINE row == SyncedColumns(p, NewId)
  <1>1. pc[p] = "write" /\ WaitsFor(p) = {} /\ UniqueSourceRef(p, Ref(p)) /\ StoreOrder(p, row)
    BY DEF InsertOrder
  <1>2. NewId \in OrderIds /\ NewId \notin UsedIds
    BY NewIdFresh DEF InsertOrder
  <1>3. row \in OrderRow /\ row.id = NewId /\ row.key = Ref(p)
    BY <1>1, <1>2, SyncedColumnsType
  <1> HIDE DEF row
  <1>4. \A q \in Runners : \A b \in pend[q].orders : b.id # row.id
    BY <1>2, <1>3 DEF UsedIds, IdsOf
  <1>5. \A b \in orders : b.id # row.id
    BY <1>2, <1>3 DEF UsedIds, IdsOf
  <1>6. \A q \in Runners \ {p} : \A b \in pend[q].orders : b.key # row.key
    BY <1>1, <1>3 DEF WaitsFor, KeyHolders, KeysOf
  <1>7. \A b \in VisibleOrders(p) : b.key # row.key
    BY <1>1, <1>3 DEF UniqueSourceRef, KeysOf
  <1>8. \A b \in pend[p].orders : b.key # row.key
    BY <1>7 DEF VisibleOrders, Overlay
  <1>9. \A a \in orders : a.key # row.key
    <2> SUFFICES ASSUME NEW a \in orders, a.key = row.key PROVE FALSE
      OBVIOUS
    <2>1. a \notin VisibleOrders(p)
      BY <1>7
    <2>2. PICK b \in pend[p].orders : b.id = a.id
      BY <2>1 DEF VisibleOrders, Overlay, IdsOf
    <2>3. b.key = a.key
      BY <2>2 DEF KeyInv, Compatible
    <2> QED BY <1>8, <2>3
  <1> QED
    BY <1>1, <1>3, <1>4, <1>5, <1>6, <1>8, <1>9, KeyInvStore

\* An UPDATE writes a row under the id and the key it was loaded with, which is
\* the key of the order in hand.
LEMMA UpdateRow ==
  ASSUME TypeOK, KeyInv, NEW p \in Runners, UpdateOrder(p)
  PROVE  \E current \in VisibleOrders(p), row \in OrderRow :
            /\ row = DirtyUpdate(current, loaded[p], SyncedColumns(p, current.id))
            /\ StoreOrder(p, row)
            /\ current.id = loaded[p].id /\ row.id = current.id
            /\ current.key = Ref(p) /\ row.key = Ref(p)
  <1>1. pc[p] = "write" /\ loaded[p] # None
    BY DEF UpdateOrder
  <1>2. PICK current \in VisibleOrders(p) :
           /\ current.id = loaded[p].id
           /\ StoreOrder(p, DirtyUpdate(current, loaded[p], SyncedColumns(p, current.id)))
    BY DEF UpdateOrder
  <1>3. current \in OrderRow /\ current.id \in OrderIds /\ loaded[p] \in OrderRow
    BY <1>1 DEF VisibleOrders, Overlay, TypeOK, WriteSet, OrderRow
  <1> DEFINE row == DirtyUpdate(current, loaded[p], SyncedColumns(p, current.id))
             W == pend[p].orders
  <1>4. row \in OrderRow /\ row.id = current.id /\ row.key = current.key
    BY <1>1, <1>3, SyncedColumnsType, DirtyUpdateType
  <1> HIDE DEF row
  <1>5. Ledger!Distinct(orders) /\ Ledger!Distinct(W) /\ Compatible(orders, W)
    BY DEF KeyInv
  <1>6. \A a, b \in orders \cup W : a.id = b.id <=> a.key = b.key
    BY <1>5 DEF Compatible, Ledger!Distinct
  <1>7. current.key = Ref(p)
    <2>1. PICK b \in VisibleOrders(p) : b.id = loaded[p].id /\ b.key = Ref(p)
      BY <1>1 DEF KeyInv, Ledger!Kept
    <2>2. b \in orders \cup W /\ current \in orders \cup W
      BY <1>2 DEF VisibleOrders, Overlay
    <2> QED BY <1>2, <1>6, <2>1, <2>2
  <1> QED BY <1>2, <1>4, <1>7 DEF row

\* So it keeps the invariant.
LEMMA KeyInvUpdate ==
  ASSUME TypeOK, KeyInv, NEW p \in Runners, UpdateOrder(p)
  PROVE  KeyInv'
  <1>1. WaitsFor(p) = {} /\ pc[p] = "write"
    BY DEF UpdateOrder
  <1>2. PICK current \in VisibleOrders(p), row \in OrderRow :
           /\ StoreOrder(p, row)
           /\ row.id = current.id /\ current.key = Ref(p) /\ row.key = Ref(p)
    BY UpdateRow
  <1> DEFINE W == pend[p].orders
  <1>3. Ledger!Distinct(orders) /\ Ledger!Distinct(W) /\ Compatible(orders, W)
    BY DEF KeyInv
  <1>4. current \in orders \cup W
    BY <1>2 DEF VisibleOrders, Overlay
  <1>5. \A a, b \in orders \cup W : a.id = b.id <=> a.key = b.key
    BY <1>3 DEF Compatible, Ledger!Distinct
  <1>7. \A a \in orders \cup W : a.id = row.id <=> a.key = row.key
    BY <1>2, <1>4, <1>5
  <1>9. \A q \in Runners \ {p} : \A b \in pend[q].orders : b.key # row.key
    BY <1>1, <1>2 DEF WaitsFor, KeyHolders, KeysOf
  <1>10. \A q \in Runners \ {p} : \A b \in pend[q].orders : b.id # row.id
    <2> SUFFICES ASSUME NEW q \in Runners \ {p}, NEW b \in pend[q].orders, b.id = row.id
                 PROVE  FALSE
      OBVIOUS
    <2>1. Compatible(orders, pend[q].orders) /\ Disjoint(W, pend[q].orders)
      BY DEF KeyInv
    <2>2. b.key = row.key
      BY <1>2, <1>4, <2>1 DEF Compatible, Disjoint
    <2> QED BY <1>9, <2>2
  <1> QED
    BY <1>2, <1>7, <1>9, <1>10, KeyInvStore

\* What a transaction sees it still sees when committed rows are kept.
LEMMA VisibleKept ==
  ASSUME NEW q \in Runners, pend'[q] = pend[q], Ledger!Kept(orders, orders')
  PROVE  Ledger!Kept(VisibleOrders(q), VisibleOrders(q)')
  <1> SUFFICES ASSUME NEW a \in VisibleOrders(q)
               PROVE  \E b \in VisibleOrders(q)' : b.id = a.id /\ b.key = a.key
    BY DEF Ledger!Kept
  <1>1. VisibleOrders(q)' = Overlay(orders', pend[q].orders)
    BY DEF VisibleOrders
  <1>2. CASE a \in pend[q].orders
    BY <1>1, <1>2 DEF Overlay
  <1>3. CASE a \notin pend[q].orders
    <2>1. a \in orders /\ a.id \notin IdsOf(pend[q].orders)
      BY <1>3 DEF VisibleOrders, Overlay
    <2>2. PICK b \in orders' : b.id = a.id /\ b.key = a.key
      BY <2>1 DEF Ledger!Kept
    <2> QED BY <1>1, <2>1, <2>2 DEF Overlay
  <1> QED BY <1>2, <1>3

\* The commit of p: its rows replace the committed ones, and every row another
\* transaction selected is still there.
LEMMA KeyInvCommit ==
  ASSUME TypeOK, KeyInv, NEW p \in Runners, Commit(p)
  PROVE  KeyInv' /\ Ledger!Amend
  <1> DEFINE W == pend[p].orders
             O == {r \in orders : r.id \notin IdsOf(W)} \cup W
  <1>1. orders' = O /\ Reset(p)
    BY DEF Commit, Overlay
  <1>2. pend'[p].orders = {} /\ save'[p].orders = {} /\ pc'[p] = "idle"
    BY <1>1 DEF Reset, TypeOK, NoWrites
  <1>3. \A q \in Runners \ {p} : /\ pend'[q] = pend[q] /\ save'[q] = save[q]
                                 /\ pc'[q] = pc[q] /\ loaded'[q] = loaded[q]
                                 /\ batch'[q] = batch[q]
    BY <1>1 DEF Reset, TypeOK
  <1>4. Ledger!Distinct(orders) /\ Ledger!Distinct(W) /\ Compatible(orders, W)
    BY DEF KeyInv
  <1>5. Ledger!Distinct(O)
    BY <1>4 DEF Ledger!Distinct, Compatible, IdsOf
  <1>6. Ledger!Kept(orders, O)
    BY <1>4 DEF Ledger!Kept, Compatible, IdsOf
  <1>7. ASSUME NEW q \in Runners PROVE Compatible(O, pend'[q].orders)
    <2>1. CASE q = p
      BY <1>2, <2>1 DEF Compatible
    <2>2. CASE q # p
      <3>1. Compatible(orders, pend[q].orders) /\ Disjoint(W, pend[q].orders)
        BY <2>2 DEF KeyInv
      <3> QED BY <1>3, <2>2, <3>1 DEF Compatible, Disjoint
    <2> QED BY <2>1, <2>2
  <1> HIDE DEF O
  <1>8. ASSUME NEW q \in Runners
        PROVE  /\ Ledger!Distinct(pend'[q].orders) /\ Ledger!Distinct(save'[q].orders)
               /\ Ledger!Kept(save'[q].orders, pend'[q].orders)
    <2>1. CASE q = p
      BY <1>2, <2>1 DEF Ledger!Distinct, Ledger!Kept
    <2>2. CASE q # p
      BY <1>3, <2>2 DEF KeyInv
    <2> QED BY <2>1, <2>2
  <1>9. ASSUME NEW q \in Runners, NEW r \in Runners \ {q}
        PROVE  Disjoint(pend'[q].orders, pend'[r].orders)
    <2>1. CASE q = p \/ r = p
      BY <1>2, <2>1 DEF Disjoint
    <2>2. CASE q # p /\ r # p
      BY <1>3, <2>2 DEF KeyInv
    <2> QED BY <2>1, <2>2
  <1>10. ASSUME NEW q \in Runners, pc'[q] = "write", loaded'[q] # None
         PROVE  loaded'[q].key = Ref(q)' /\ Ledger!Kept({loaded'[q]}, VisibleOrders(q)')
    <2>1. q # p
      BY <1>2, <1>10
    <2>2. loaded'[q].key = Ref(q)' /\ Ledger!Kept({loaded'[q]}, VisibleOrders(q))
      BY <1>3, <1>10, <2>1 DEF KeyInv, Ref
    <2>3. Ledger!Kept(VisibleOrders(q), VisibleOrders(q)')
      BY <1>1, <1>3, <1>6, <2>1, VisibleKept
    <2> QED BY <2>2, <2>3 DEF Ledger!Kept
  <1> QED
    BY <1>1, <1>5, <1>6, <1>7, <1>8, <1>9, <1>10 DEF KeyInv, Ledger!Amend

\* A step outside the runners that keeps the committed rows and adds none an
\* open transaction holds.
LEMMA KeyInvEnv ==
  ASSUME KeyInv, UNCHANGED runVars, Ledger!Distinct(orders'), Ledger!Kept(orders, orders'),
         \A q \in Runners : Compatible(orders', pend[q].orders)
  PROVE  KeyInv'
  <1>1. UNCHANGED <<pc, batch, pend, save, loaded>>
    BY DEF runVars
  <1>2. ASSUME NEW q \in Runners, pc'[q] = "write", loaded'[q] # None
        PROVE  loaded'[q].key = Ref(q)' /\ Ledger!Kept({loaded'[q]}, VisibleOrders(q)')
    <2>1. loaded'[q].key = Ref(q)' /\ Ledger!Kept({loaded'[q]}, VisibleOrders(q))
      BY <1>1, <1>2 DEF KeyInv, Ref
    <2>2. Ledger!Kept(VisibleOrders(q), VisibleOrders(q)')
      BY <1>1, VisibleKept
    <2> QED BY <2>1, <2>2 DEF Ledger!Kept
  <1> QED
    BY <1>1, <1>2 DEF KeyInv

\* A SELECT loads a visible row with the key it asked for.
LEMMA KeyInvSelect ==
  ASSUME TypeOK, KeyInv, NEW p \in Runners, SelectOrder(p)
  PROVE  KeyInv'
  <1>1. /\ orders' = orders /\ pend' = pend /\ save' = save /\ batch' = batch
        /\ \A q \in Runners \ {p} : pc'[q] = pc[q] /\ loaded'[q] = loaded[q]
    BY DEF SelectOrder, tableVars, TypeOK
  <1>2. loaded'[p] = IF Ref(p) \in KeysOf(VisibleOrders(p))
                     THEN CHOOSE r \in VisibleOrders(p) : r.key = Ref(p) ELSE None
    BY DEF SelectOrder, TypeOK
  <1>3. loaded'[p] # None => loaded'[p] \in VisibleOrders(p) /\ loaded'[p].key = Ref(p)
    BY <1>2 DEF KeysOf
  <1>4. VisibleOrders(p)' = VisibleOrders(p) /\ Ref(p)' = Ref(p)
    BY <1>1 DEF VisibleOrders, Ref
  <1>5. Ledger!Kept(pend[p].orders, pend[p].orders)
    BY DEF Ledger!Kept
  <1>6. loaded'[p] # None => Ledger!Kept({loaded'[p]}, VisibleOrders(p)')
    BY <1>3, <1>4 DEF Ledger!Kept
  <1> QED
    BY <1>1, <1>3, <1>4, <1>5, <1>6, KeyInvShrink DEF KeyInv

\* A post adds one row under a new id and a key nobody has.
LEMMA KeyInvPost ==
  ASSUME TypeOK, KeyInv, NEW ref, NEW e \in customers, CreateOrder(ref, e)
  PROVE  KeyInv' /\ Ledger!Amend
  <1>1. NewId \in OrderIds /\ NewId \notin UsedIds
    BY NewIdFresh DEF CreateOrder
  <1>2. PICK key \in SourceRefs(ref) :
           /\ \A q \in Runners : key \notin KeysOf(pend[q].orders)
           /\ key \notin KeysOf(orders)
           /\ orders' = orders \cup {PostedRow(NewId, key, e)}
    BY DEF CreateOrder
  <1> DEFINE row == PostedRow(NewId, key, e)
  <1>3. row.id = NewId /\ row.key = key
    BY DEF PostedRow
  <1> HIDE DEF row
  <1>4. \A b \in orders : b.id # row.id /\ b.key # row.key
    BY <1>1, <1>2, <1>3 DEF UsedIds, IdsOf, KeysOf
  <1>5. \A q \in Runners : \A b \in pend[q].orders : b.id # row.id /\ b.key # row.key
    BY <1>1, <1>2, <1>3 DEF UsedIds, IdsOf, KeysOf
  <1>6. orders' = orders \cup {row}
    BY <1>2 DEF row
  <1>7. Ledger!Distinct(orders') /\ Ledger!Kept(orders, orders')
    BY <1>4, <1>6 DEF KeyInv, Ledger!Distinct, Ledger!Kept
  <1>8. \A q \in Runners : Compatible(orders', pend[q].orders)
    BY <1>5, <1>6 DEF KeyInv, Compatible
  <1>9. UNCHANGED runVars
    BY DEF CreateOrder
  <1> QED BY <1>7, <1>8, <1>9, KeyInvEnv DEF Ledger!Amend

\* A patch rewrites columns of one row, never its id or its key.
LEMMA KeyInvPatch ==
  ASSUME TypeOK, KeyInv, NEW c \in Clients, PatchWrite(c)
  PROVE  KeyInv' /\ Ledger!Amend
  <1>1. patch[c] \in [row : OrderRow, status : Statuses]
    BY DEF PatchWrite, TypeOK
  <1> DEFINE old == patch[c].row
             new == [old EXCEPT !.status = patch[c].status,
                                !.backlog = Backlog(patch[c].status, PatchBacklogStatuses)]
             f(r) == IF r.id = old.id THEN DirtyUpdate(r, old, new) ELSE r
  <1>2. old \in OrderRow /\ new \in OrderRow
    BY <1>1 DEF OrderRow, Backlog
  <1>3. orders' = {f(r) : r \in orders}
    BY DEF PatchWrite
  <1> HIDE DEF old, new
  <1>4. \A r \in orders : f(r).id = r.id /\ f(r).key = r.key
    <2> SUFFICES ASSUME NEW r \in orders PROVE f(r).id = r.id /\ f(r).key = r.key
      OBVIOUS
    <2>1. r \in OrderRow
      BY DEF TypeOK
    <2> QED BY <1>2, <2>1, DirtyUpdateType
  <1> HIDE DEF f
  <1>5. Ledger!Distinct(orders') /\ Ledger!Kept(orders, orders')
    <2>1. \A a, b \in orders : a.id = b.id \/ a.key = b.key => a = b
      BY DEF KeyInv, Ledger!Distinct
    <2>2. Ledger!Distinct({f(r) : r \in orders})
      BY <1>4, <2>1 DEF Ledger!Distinct
    <2>3. Ledger!Kept(orders, {f(r) : r \in orders})
      BY <1>4 DEF Ledger!Kept
    <2> QED BY <1>3, <2>2, <2>3
  <1>6. ASSUME NEW q \in Runners PROVE Compatible(orders', pend[q].orders)
    <2>1. Compatible(orders, pend[q].orders)
      BY DEF KeyInv
    <2>2. Compatible({f(r) : r \in orders}, pend[q].orders)
      BY <1>4, <2>1 DEF Compatible
    <2> QED BY <1>3, <2>2
  <1>7. UNCHANGED runVars
    BY DEF PatchWrite
  <1> QED BY <1>5, <1>6, <1>7, KeyInvEnv DEF Ledger!Amend

\* A step of a runner that is neither a commit nor a write to table orders.
LEMMA KeyInvOther ==
  ASSUME TypeOK, KeyInv, NEW p \in Runners,
         \/ FetchExternalOrders(p) \/ ProductLookup(p) \/ SkipInvalid(p)
         \/ ResolveCustomer(p) \/ InsertCustomer(p)
         \/ AddItem(p) \/ AddProductAndItem(p) \/ FinishOrder(p)
  PROVE  KeyInv'
  <1>0. pend \in [Runners -> WriteSet] /\ save \in [Runners -> WriteSet] /\ pend[p] \in WriteSet
    BY DEF TypeOK
  <1>1. orders' = orders
    BY DEF FetchExternalOrders, ProductLookup, SkipInvalid, ResolveCustomer, InsertCustomer,
           AddItem, AddProductAndItem, FinishOrder, tableVars
  <1>2. \A q \in Runners \ {p} : /\ pend'[q] = pend[q] /\ save'[q] = save[q]
                                 /\ pc'[q] = pc[q] /\ loaded'[q] = loaded[q]
                                 /\ batch'[q] = batch[q]
    BY DEF FetchExternalOrders, ProductLookup, SkipInvalid, ResolveCustomer, InsertCustomer,
           AddItem, AddProductAndItem, FinishOrder, TypeOK
  <1>3. pend'[p].orders = pend[p].orders
    <2>1. CASE FetchExternalOrders(p) \/ ProductLookup(p) \/ ResolveCustomer(p)
      BY <2>1 DEF FetchExternalOrders, ProductLookup, ResolveCustomer
    <2>2. CASE SkipInvalid(p)
      BY <1>0, <2>2 DEF SkipInvalid, WriteSet
    <2>3. CASE InsertCustomer(p)
      BY <1>0, <2>3 DEF InsertCustomer, WriteSet
    <2>4. CASE AddItem(p)
      BY <1>0, <2>4 DEF AddItem, WriteSet
    <2>5. CASE AddProductAndItem(p)
      BY <1>0, <2>5 DEF AddProductAndItem, WriteSet
    <2>6. CASE FinishOrder(p)
      BY <1>0, <2>6 DEF FinishOrder, WriteSet
    <2> QED BY <2>1, <2>2, <2>3, <2>4, <2>5, <2>6
  <1>4. save'[p].orders \in {save[p].orders, pend[p].orders, {}}
    <2>1. CASE FinishOrder(p)
      BY <1>0, <2>1 DEF FinishOrder, NoWrites
    <2>2. CASE ResolveCustomer(p)
      BY <1>0, <2>2 DEF ResolveCustomer
    <2>3. CASE ~FinishOrder(p) /\ ~ResolveCustomer(p)
      BY <2>3 DEF FetchExternalOrders, ProductLookup, SkipInvalid, InsertCustomer,
                  AddItem, AddProductAndItem
    <2> QED BY <2>1, <2>2, <2>3
  <1>5. pc'[p] # "write"
    BY DEF FetchExternalOrders, ProductLookup, SkipInvalid, ResolveCustomer, InsertCustomer,
           AddItem, AddProductAndItem, FinishOrder, TypeOK
  <1> QED BY <1>1, <1>2, <1>3, <1>4, <1>5, KeyInvFrame

\* A step of a runner that leaves the committed orders alone.
LEMMA KeyInvQuiet ==
  ASSUME TypeOK, KeyInv, NEW p \in Runners, RunnerStep(p) \/ Crash(p), ~Commit(p)
  PROVE  KeyInv' /\ orders' = orders
  <1>1. CASE \/ FetchExternalOrders(p) \/ ProductLookup(p) \/ SkipInvalid(p)
             \/ ResolveCustomer(p) \/ InsertCustomer(p)
             \/ AddItem(p) \/ AddProductAndItem(p) \/ FinishOrder(p)
    <2>1. orders' = orders
      BY <1>1 DEF FetchExternalOrders, ProductLookup, SkipInvalid, ResolveCustomer,
           InsertCustomer, AddItem, AddProductAndItem, FinishOrder, tableVars
    <2> QED BY <1>1, <2>1, KeyInvOther
  <1>2. CASE \/ InsertCustomerRefused(p) \/ InsertOrderRefused(p) \/ AddItemRefused(p)
             \/ AddProductRefused(p) \/ DeadlockVictim(p)
    <2>1. FailOrder(p)
      BY <1>2 DEF InsertCustomerRefused, InsertOrderRefused, AddItemRefused,
                  AddProductRefused, DeadlockVictim
    <2> QED BY <2>1, KeyInvFail DEF FailOrder, tableVars
  <1>3. CASE NormalizeRaises(p) \/ Crash(p)
    <2>1. Reset(p) /\ orders' = orders
      BY <1>3 DEF NormalizeRaises, Crash, tableVars
    <2> QED BY <2>1, KeyInvReset
  <1>4. CASE SelectOrder(p)
    BY <1>4, KeyInvSelect DEF SelectOrder, tableVars
  <1>5. CASE InsertOrder(p)
    BY <1>5, KeyInvInsert DEF InsertOrder, StoreOrder, tableVars
  <1>6. CASE UpdateOrder(p)
    BY <1>6, KeyInvUpdate DEF UpdateOrder, StoreOrder, tableVars
  <1> QED
    BY <1>1, <1>2, <1>3, <1>4, <1>5, <1>6 DEF RunnerStep

\* Every step keeps the invariant and is a step of the ledger, or leaves the
\* orders alone.
LEMMA KeyInvStep ==
  ASSUME TypeOK, KeyInv, [Next]_vars
  PROVE  KeyInv' /\ [Ledger!Amend]_orders
  <1>1. ASSUME NEW p \in Runners, RunnerStep(p) \/ Crash(p)
        PROVE  KeyInv' /\ [Ledger!Amend]_orders
    BY <1>1, KeyInvQuiet, KeyInvCommit
  <1>2. ASSUME NEW ref, NEW e \in customers, CreateOrder(ref, e)
        PROVE  KeyInv' /\ [Ledger!Amend]_orders
    BY <1>2, KeyInvPost
  <1>3. ASSUME NEW c \in Clients, PatchWrite(c) PROVE KeyInv' /\ [Ledger!Amend]_orders
    BY <1>3, KeyInvPatch
  <1>4. ASSUME UNCHANGED orders, UNCHANGED runVars PROVE KeyInv' /\ [Ledger!Amend]_orders
    <2>1. Ledger!Distinct(orders') /\ Ledger!Kept(orders, orders')
      BY <1>4 DEF KeyInv, Ledger!Kept
    <2>2. \A q \in Runners : Compatible(orders', pend[q].orders)
      BY <1>4 DEF KeyInv
    <2> QED BY <1>4, <2>1, <2>2, KeyInvEnv
  <1>5. ASSUME NEW p \in Runners, FetchFails(p) PROVE UNCHANGED <<orders, runVars>>
    BY <1>5 DEF FetchFails, tableVars
  <1>6. ASSUME NEW r, Publish(r) PROVE UNCHANGED <<orders, runVars>>
    BY <1>6 DEF Publish, tableVars
  <1>7. ASSUME NEW r, CreateOrderRejected(r) \/ CreateOrderConflict(r)
        PROVE  UNCHANGED <<orders, runVars>>
    BY <1>7 DEF CreateOrderRejected, CreateOrderConflict, tableVars
  <1>8. ASSUME NEW c, NEW row, NEW s, PatchRead(c, row, s) PROVE UNCHANGED <<orders, runVars>>
    BY <1>8 DEF PatchRead, tableVars
  <1>9. CASE UNCHANGED vars
    BY <1>4, <1>9 DEF vars, runVars
  <1> QED
    BY <1>1, <1>2, <1>3, <1>4, <1>5, <1>6, <1>7, <1>8, <1>9 DEF Next

\* Nothing is stored, so nothing disagrees.
LEMMA KeyInvInit == Init => KeyInv
  BY DEF Init, KeyInv, NoWrites, Ledger!Distinct, Ledger!Kept, Compatible, Disjoint

\* The agreement on ids and keys between the committed orders and every open
\* transaction of sync_external_orders, for every value of the constants.
THEOREM KeysAgree == Spec => []KeyInv
  <1>1. TypeOK /\ KeyInv /\ [Next]_vars => KeyInv'
    BY KeyInvStep
  <1> QED
    BY <1>1, KeyInvInit, TypeCorrect, PTL DEF Spec

\* uq_orders_source_ref holds whatever replicas, posts and patches do: no two
\* committed orders share a source id.
THEOREM UniqueOrders == Spec => []OneOrderPerSourceRef
  <1>1. KeyInv => OneOrderPerSourceRef
    BY DEF KeyInv, Ledger!Distinct, OneOrderPerSourceRef
  <1> QED
    BY <1>1, KeysAgree, PTL

\* The order pipeline implements the ledger: an order once committed by a run
\* or a post is never lost, renumbered or given another source id.
THEOREM ImplementsLedger == Spec => IsLedger
  <1>1. Init => Ledger!Init
    BY DEF Init, Ledger!Init
  <1>2. TypeOK /\ KeyInv /\ [Next]_vars => [Ledger!Amend]_orders
    BY KeyInvStep
  <1> QED
    BY <1>1, <1>2, TypeCorrect, KeysAgree, PTL DEF Spec, IsLedger, Ledger!Spec

=============================================================================
