-------------------------- MODULE OrderItems_proofs --------------------------
(***************************************************************************)
(* Proofs about what OrderSync keeps beside the order rows: their items,   *)
(* their audit trail and the savepoints of a batch, for any number of      *)
(* replicas, clients and orders, any order contents and any bounds.        *)
(***************************************************************************)
EXTENDS OrderSync_proofs

-----------------------------------------------------------------------------
(* The inductive invariant behind ItemsAreOneVersion.                      *)

\* The item rows of an order id.
RowsFor(rows, id) == {i \in rows : i.order = id}

\* A write set holds items only of the orders it holds, takes all committed
\* items its (the table) of those away, and has them whole but for the order
\* open, whose items are still being added.
WholeItems(W, its, open) ==
    /\ \A i \in W.insItems \cup W.delItems : i.order \in IdsOf(W.orders)
    /\ \A w \in W.orders : RowsFor(its, w.id) \subseteq W.delItems
    /\ \A w \in W.orders : w.id # open => CompleteItems(RowsFor(W.insItems, w.id), w)

\* The rows of the first n items of version ver, written by p.
FirstItems(rows, p, ver, n) ==
    /\ \A i \in rows : i.by = p /\ i.ver = ver
    /\ \A i, j \in rows : i.pos = j.pos => i = j
    /\ {i.pos : i \in rows} = 1..n

\* The order p is adding items to, and how far it has come.
ItemsUnderWay(p) ==
    /\ pc[p] # "items" => oid[p] = None
    /\ pc[p] = "items" =>
          /\ \E w \in pend[p].orders : w.id = oid[p] /\ w.key = Ref(p)
          /\ Len(todo[p]) <= Len(Raw(p).items)
          /\ FirstItems(RowsFor(pend[p].insItems, oid[p]), p, Head(batch[p]).ver,
                        Len(Raw(p).items) - Len(todo[p]))

ItemsOfRun(p) ==
    /\ WholeItems(pend[p], items, oid[p])
    /\ WholeItems(save[p], items, None)
    /\ ItemsUnderWay(p)

ItemsInv ==
    /\ \A i \in items : i.order \in IdsOf(orders)
    /\ ItemsAreOneVersion
    /\ \A p \in Runners : ItemsOfRun(p)

-----------------------------------------------------------------------------
(* Lemmas about what a step of a run leaves alone.                         *)

\* A run changes its own state only.
LEMMA OthersKeep ==
  ASSUME TypeOK, NEW p \in Runners, RunnerStep(p) \/ Crash(p)
  PROVE  \A q \in Runners \ {p} :
            /\ pend'[q] = pend[q] /\ save'[q] = save[q] /\ pc'[q] = pc[q]
            /\ batch'[q] = batch[q] /\ loaded'[q] = loaded[q]
            /\ oid'[q] = oid[q] /\ todo'[q] = todo[q]
  <1> USE DEF TypeOK
  <1>1. CASE Reset(p)
    BY <1>1 DEF Reset
  <1>2. CASE FailOrder(p)
    BY <1>2 DEF FailOrder
  <1>3. ASSUME NEW row, StoreOrder(p, row)
        PROVE  \A q \in Runners \ {p} :
            /\ pend'[q] = pend[q] /\ save'[q] = save[q] /\ pc'[q] = pc[q]
            /\ batch'[q] = batch[q] /\ loaded'[q] = loaded[q]
            /\ oid'[q] = oid[q] /\ todo'[q] = todo[q]
    BY <1>3 DEF StoreOrder
  <1>4. CASE \/ FetchExternalOrders(p) \/ ProductLookup(p) \/ SkipInvalid(p)
             \/ ResolveCustomer(p) \/ InsertCustomer(p) \/ SelectOrder(p)
    BY <1>4 DEF FetchExternalOrders, ProductLookup, SkipInvalid, ResolveCustomer,
                InsertCustomer, SelectOrder
  <1>5. CASE AddItem(p) \/ AddProductAndItem(p) \/ FinishOrder(p)
    BY <1>5 DEF AddItem, AddProductAndItem, FinishOrder
  <1> QED
    BY <1>1, <1>2, <1>3, <1>4, <1>5
       DEF RunnerStep, Crash, NormalizeRaises, InsertCustomerRefused, InsertOrderRefused,
           AddItemRefused, AddProductRefused, DeadlockVictim, Commit, InsertOrder, UpdateOrder

\* Only a commit of a run writes the tables.
LEMMA TablesKeep ==
  ASSUME NEW p \in Runners, RunnerStep(p) \/ Crash(p), ~Commit(p)
  PROVE  UNCHANGED tableVars
  BY DEF RunnerStep, Crash, FetchExternalOrders, ProductLookup, NormalizeRaises, SkipInvalid,
         ResolveCustomer, InsertCustomer, SelectOrder, InsertOrder, UpdateOrder, StoreOrder,
         InsertCustomerRefused, InsertOrderRefused, AddItemRefused, AddProductRefused,
         DeadlockVictim, FailOrder, AddItem, AddProductAndItem, FinishOrder

\* Steps that are not of a run leave the runs alone.
LEMMA RunsKeep ==
  ASSUME Next, ~ \E p \in Runners : RunnerStep(p) \/ Crash(p)
  PROVE  UNCHANGED runVars
  BY DEF Next, FetchFails, Publish, CreateOrderRejected, CreateOrderConflict, CreateOrder,
         PatchRead, PatchWrite

\* ... and all but two leave the tables alone.
LEMMA TablesKeepToo ==
  ASSUME Next, ~ \E p \in Runners : RunnerStep(p) \/ Crash(p),
         ~ \E r \in Refs \cup {None}, e \in customers : CreateOrder(r, e),
         ~ \E c \in Clients : PatchWrite(c)
  PROVE  UNCHANGED tableVars
  BY DEF Next, FetchFails, Publish, CreateOrderRejected, CreateOrderConflict, PatchRead

\* A savepoint fails only while an order is being worked on.
LEMMA FailsAtWork ==
  ASSUME TypeOK, NEW p \in Runners,
         \/ InsertCustomerRefused(p) \/ InsertOrderRefused(p) \/ AddItemRefused(p)
         \/ AddProductRefused(p) \/ DeadlockVictim(p)
  PROVE  FailOrder(p) /\ pc[p] \in {"newCustomer", "write", "items"} /\ batch[p] # <<>>
  <1>1. CASE DeadlockVictim(p)
    <2>1. WaitsFor(p) # {} /\ FailOrder(p)
      BY <1>1 DEF DeadlockVictim
    <2>2. pc[p] \in {"newCustomer", "write", "items"}
      BY <2>1 DEF WaitsFor
    <2> QED BY <2>1, <2>2 DEF TypeOK, FlowOK
  <1>2. CASE ~DeadlockVictim(p)
    BY <1>2 DEF InsertCustomerRefused, InsertOrderRefused, AddItemRefused, AddProductRefused,
                TypeOK, FlowOK
  <1> QED BY <1>1, <1>2

-----------------------------------------------------------------------------
(* Items of a write set.                                                   *)

\* Only its order and item tables count.
LEMMA WholeSame ==
  ASSUME NEW V, NEW W, NEW its, NEW open, WholeItems(W, its, open),
         V.orders = W.orders, V.insItems = W.insItems, V.delItems = W.delItems
  PROVE  WholeItems(V, its, open)
  BY DEF WholeItems

\* A transaction that has written nothing holds no items.
LEMMA WholeNothing ==
  ASSUME NEW its, NEW open
  PROVE  WholeItems(NoWrites, its, open)
  BY DEF WholeItems, NoWrites

\* Committed items that come or go under ids the write set does not hold, or
\* that only go, do not matter to it.
LEMMA WholeBeside ==
  ASSUME NEW W, NEW its, NEW its2, NEW open, WholeItems(W, its, open),
         \A w \in W.orders : RowsFor(its2, w.id) \subseteq its
  PROVE  WholeItems(W, its2, open)
  <1>1. \A w \in W.orders : RowsFor(its2, w.id) \subseteq RowsFor(its, w.id)
    BY DEF RowsFor
  <1> QED BY <1>1 DEF WholeItems

\* _replace_order_items empties the order that is stored ...
LEMMA WholeStore ==
  ASSUME NEW W, NEW V, NEW its, NEW row, WholeItems(W, its, None),
         V.orders = Overlay(W.orders, {row}), None \notin IdsOf(W.orders),
         V.delItems = W.delItems \cup {i \in its : i.order = row.id},
         V.insItems = {i \in W.insItems : i.order # row.id}
  PROVE  WholeItems(V, its, row.id) /\ RowsFor(V.insItems, row.id) = {}
  <1>1. V.orders = {w \in W.orders : w.id # row.id} \cup {row}
    BY DEF Overlay, IdsOf
  <1>2. ASSUME NEW i \in V.insItems \cup V.delItems PROVE i.order \in IdsOf(V.orders)
    <2>1. CASE i.order = row.id
      BY <1>1, <2>1 DEF IdsOf
    <2>2. CASE i.order # row.id
      <3>1. i \in W.insItems \cup W.delItems
        BY <1>2, <2>2
      <3>2. PICK w \in W.orders : w.id = i.order
        BY <3>1 DEF WholeItems, IdsOf
      <3>3. w \in V.orders
        BY <1>1, <2>2, <3>2
      <3> QED BY <3>2, <3>3 DEF IdsOf
    <2> QED BY <2>1, <2>2
  <1>3. ASSUME NEW w \in V.orders PROVE RowsFor(its, w.id) \subseteq V.delItems
    BY <1>1 DEF WholeItems, RowsFor
  <1>4. ASSUME NEW w \in V.orders, w.id # row.id
        PROVE  CompleteItems(RowsFor(V.insItems, w.id), w)
    <2>1. w \in W.orders /\ w.id # None
      BY <1>1, <1>4 DEF IdsOf
    <2>2. RowsFor(V.insItems, w.id) = RowsFor(W.insItems, w.id)
      BY <1>4 DEF RowsFor
    <2> QED BY <2>1, <2>2 DEF WholeItems
  <1>5. RowsFor(V.insItems, row.id) = {}
    BY DEF RowsFor
  <1> QED BY <1>2, <1>3, <1>4, <1>5 DEF WholeItems

\* ... and an item is added to the open order only.
LEMMA WholeAdd ==
  ASSUME NEW W, NEW V, NEW its, NEW open, NEW i, WholeItems(W, its, open),
         V.orders = W.orders, V.delItems = W.delItems, V.insItems = W.insItems \cup {i},
         i.order = open, open \in IdsOf(W.orders)
  PROVE  WholeItems(V, its, open)
         /\ RowsFor(V.insItems, open) = RowsFor(W.insItems, open) \cup {i}
  <1>1. \A w \in W.orders : w.id # open => RowsFor(V.insItems, w.id) = RowsFor(W.insItems, w.id)
    BY DEF RowsFor
  <1>2. RowsFor(V.insItems, open) = RowsFor(W.insItems, open) \cup {i}
    BY DEF RowsFor
  <1> QED BY <1>1, <1>2 DEF WholeItems

\* The next item continues the list.
LEMMA NextItem ==
  ASSUME NEW rows, NEW p, NEW ver, NEW n \in Nat, NEW i, FirstItems(rows, p, ver, n),
         i.by = p, i.ver = ver, i.pos = n + 1
  PROVE  FirstItems(rows \cup {i}, p, ver, n + 1)
  <1> DEFINE new == rows \cup {i}
  <1>1. \A j \in rows : j.pos \in 1..n
    BY DEF FirstItems
  <1>2. \A a, b \in new : a.pos = b.pos => a = b
    BY <1>1 DEF FirstItems
  <1>3. {j.pos : j \in new} = {j.pos : j \in rows} \cup {n + 1}
    OBVIOUS
  <1>4. (1..n) \cup {n + 1} = 1..(n + 1)
    OBVIOUS
  <1>5. {j.pos : j \in new} = 1..(n + 1)
    BY <1>3, <1>4 DEF FirstItems
  <1> QED BY <1>2, <1>5 DEF FirstItems

\* With the last one the list is complete.
LEMMA LastItem ==
  ASSUME NEW rows, NEW p, NEW ver, NEW o, NEW n \in Nat, FirstItems(rows, p, ver, n),
         DOMAIN Content[o.key][ver].items = 1..n
  PROVE  CompleteItems(rows, o)
  BY DEF FirstItems, CompleteItems

-----------------------------------------------------------------------------
(* A run's own steps.                                                      *)

\* Up to the write of the order a run touches neither orders nor items.
LEMMA ItemsFrame ==
  ASSUME NEW p \in Runners, ItemsOfRun(p), items' = items,
         pend'[p].orders = pend[p].orders, pend'[p].insItems = pend[p].insItems,
         pend'[p].delItems = pend[p].delItems, save'[p] \in {save[p], pend[p]},
         oid'[p] = oid[p], pc[p] # "items", pc'[p] # "items"
  PROVE  ItemsOfRun(p)'
  <1>1. oid[p] = None /\ WholeItems(pend[p], items, None) /\ WholeItems(save[p], items, None)
    BY DEF ItemsOfRun, ItemsUnderWay
  <1>2. WholeItems(pend'[p], items, None)
    BY <1>1, WholeSame
  <1>3. WholeItems(save'[p], items, None)
    BY <1>1
  <1>4. ItemsUnderWay(p)'
    BY <1>1 DEF ItemsUnderWay
  <1> QED BY <1>1, <1>2, <1>3, <1>4 DEF ItemsOfRun

\* The write set and the savepoint up to the SELECT of the order.
LEMMA EarlyWrites ==
  ASSUME TypeOK, NEW p \in Runners,
         \/ FetchExternalOrders(p) \/ ProductLookup(p) \/ SkipInvalid(p)
         \/ ResolveCustomer(p) \/ InsertCustomer(p) \/ SelectOrder(p)
  PROVE  /\ orders' = orders /\ items' = items /\ audit' = audit /\ oid' = oid
         /\ pc[p] # "items" /\ pc'[p] # "items" /\ save'[p] \in {save[p], pend[p]}
         /\ pend'[p].orders = pend[p].orders /\ pend'[p].insItems = pend[p].insItems
         /\ pend'[p].delItems = pend[p].delItems
         /\ \/ pend'[p].audit = pend[p].audit
            \/ pend'[p].audit = pend[p].audit \cup {AuditRow(None, "skip", "invalid", 0)}
  <1>1. pend \in [Runners -> WriteSet] /\ pend[p] \in WriteSet
    BY DEF TypeOK
  <1>2. /\ orders' = orders /\ items' = items /\ audit' = audit /\ oid' = oid
        /\ pc[p] # "items" /\ pc'[p] # "items" /\ save'[p] \in {save[p], pend[p]}
    BY DEF FetchExternalOrders, ProductLookup, SkipInvalid, ResolveCustomer, InsertCustomer,
           SelectOrder, tableVars, TypeOK
  <1>3. CASE SkipInvalid(p)
    BY <1>1, <1>2, <1>3 DEF SkipInvalid, WriteSet
  <1>4. CASE InsertCustomer(p)
    BY <1>1, <1>2, <1>4 DEF InsertCustomer, WriteSet
  <1>5. CASE ~SkipInvalid(p) /\ ~InsertCustomer(p)
    BY <1>2, <1>5 DEF FetchExternalOrders, ProductLookup, ResolveCustomer, SelectOrder
  <1> QED BY <1>3, <1>4, <1>5

LEMMA ItemsEarly ==
  ASSUME TypeOK, NEW p \in Runners, ItemsOfRun(p),
         \/ FetchExternalOrders(p) \/ ProductLookup(p) \/ SkipInvalid(p)
         \/ ResolveCustomer(p) \/ InsertCustomer(p) \/ SelectOrder(p)
  PROVE  ItemsOfRun(p)'
  BY EarlyWrites, ItemsFrame

\* A run that ends has written nothing, and whatever its last commit did to the
\* items is not its business any more.
LEMMA ItemsReset ==
  ASSUME TypeOK, NEW p \in Runners, Reset(p)
  PROVE  ItemsOfRun(p)'
  <1>1. pend'[p] = NoWrites /\ save'[p] = NoWrites /\ oid'[p] = None /\ pc'[p] = "idle"
    BY DEF Reset, TypeOK
  <1> QED BY <1>1, WholeNothing DEF ItemsOfRun, ItemsUnderWay

\* What is left when a savepoint fails.
LEMMA FailWrites ==
  ASSUME TypeOK, NEW p \in Runners, FailOrder(p)
  PROVE  /\ pend'[p].orders = save[p].orders /\ pend'[p].insItems = save[p].insItems
         /\ pend'[p].delItems = save[p].delItems
         /\ pend'[p].audit = save[p].audit \cup
               {AuditRow(Ref(p), "upsert", "failed", Head(batch[p]).ver)}
         /\ save'[p] = NoWrites /\ oid'[p] = None /\ pc'[p] = "loop"
         /\ batch'[p] = Tail(batch[p])
         /\ orders' = orders /\ items' = items /\ audit' = audit
  <1>1. save[p] \in WriteSet
    BY DEF TypeOK
  <1> DEFINE a == AuditRow(Ref(p), "upsert", "failed", Head(batch[p]).ver)
  <1>2. pend' = [pend EXCEPT ![p] = [save[p] EXCEPT !.audit = @ \cup {a}]]
    BY DEF FailOrder
  <1> HIDE DEF a
  <1>3. /\ pend'[p].orders = save[p].orders /\ pend'[p].audit = save[p].audit \cup {a}
        /\ pend'[p].insItems = save[p].insItems /\ pend'[p].delItems = save[p].delItems
    BY <1>1, <1>2 DEF WriteSet, TypeOK
  <1> QED BY <1>3 DEF FailOrder, TypeOK, tableVars, a

\* A failed savepoint takes the run back to the write set it began with.
LEMMA ItemsFail ==
  ASSUME TypeOK, NEW p \in Runners, ItemsOfRun(p), FailOrder(p)
  PROVE  ItemsOfRun(p)'
  <1>1. WholeItems(pend'[p], items', None)
    BY FailWrites, WholeSame DEF ItemsOfRun
  <1> QED BY <1>1, FailWrites, WholeNothing DEF ItemsOfRun, ItemsUnderWay

\* What is written to the rows and items of the order that is stored.
LEMMA StoreWrites ==
  ASSUME TypeOK, NEW p \in Runners, NEW row, StoreOrder(p, row)
  PROVE  /\ pend'[p].orders = Overlay(pend[p].orders, {row})
         /\ pend'[p].delItems = pend[p].delItems \cup {i \in items : i.order = row.id}
         /\ pend'[p].insItems = {i \in pend[p].insItems : i.order # row.id}
         /\ pend'[p].audit = pend[p].audit
         /\ save' = save /\ batch' = batch /\ loaded' = loaded
         /\ orders' = orders /\ items' = items /\ audit' = audit
         /\ oid'[p] = row.id /\ todo'[p] = Raw(p).items /\ pc'[p] = "items"
  <1>1. pend \in [Runners -> WriteSet] /\ pend[p] \in WriteSet
    BY DEF TypeOK
  <1>2. /\ pend'[p].orders = Overlay(pend[p].orders, {row})
        /\ pend'[p].delItems = pend[p].delItems \cup {i \in items : i.order = row.id}
        /\ pend'[p].insItems = {i \in pend[p].insItems : i.order # row.id}
        /\ pend'[p].audit = pend[p].audit
    BY <1>1 DEF StoreOrder, WriteSet
  <1> QED BY <1>2 DEF StoreOrder, TypeOK, tableVars

LEMMA ItemsStore ==
  ASSUME TypeOK, NEW p \in Runners, ItemsOfRun(p), pc[p] = "write",
         NEW row \in OrderRow, row.key = Ref(p), StoreOrder(p, row)
  PROVE  ItemsOfRun(p)'
  <1>1. oid[p] = None /\ WholeItems(pend[p], items, None)
    BY DEF ItemsOfRun, ItemsUnderWay
  <1>2. None \notin IdsOf(pend[p].orders)
    BY ConstantsAssumption DEF TypeOK, WriteSet, OrderRow, IdsOf
  <1>a. /\ pend'[p].orders = Overlay(pend[p].orders, {row})
        /\ save' = save /\ batch' = batch /\ items' = items
        /\ oid'[p] = row.id /\ todo'[p] = Raw(p).items /\ pc'[p] = "items"
    BY StoreWrites
  <1>3. WholeItems(pend'[p], items, row.id) /\ RowsFor(pend'[p].insItems, row.id) = {}
    BY <1>1, <1>2, StoreWrites, WholeStore
  <1>4. row \in pend'[p].orders
    BY <1>a DEF Overlay
  <1>5. Raw(p).items \in Seq(Line) /\ Raw(p)' = Raw(p) /\ Ref(p)' = Ref(p)
    BY <1>a, HeadType DEF TypeOK, FlowOK, Payloads, Raw, Ref
  <1>6. FirstItems({}, p, Head(batch[p]).ver, 0)
    BY DEF FirstItems
  <1>7. ItemsUnderWay(p)'
    <2>1. Len(Raw(p).items) \in Nat /\ Len(Raw(p).items) - Len(Raw(p).items) = 0
      BY <1>5
    <2> QED BY <1>a, <1>3, <1>4, <1>5, <1>6, <2>1 DEF ItemsUnderWay
  <1> QED BY <1>a, <1>3, <1>7 DEF ItemsOfRun

\* What is written when an item is added, of a known product or a new one.
LEMMA AddWrites ==
  ASSUME TypeOK, NEW p \in Runners, AddItem(p) \/ AddProductAndItem(p)
  PROVE  /\ pc[p] = "items" /\ todo[p] # <<>>
         /\ \E sku : pend'[p].insItems = pend[p].insItems \cup
               {ItemRow(p, sku, Len(Raw(p).items) - Len(todo[p]) + 1)}
         /\ pend'[p].orders = pend[p].orders /\ pend'[p].delItems = pend[p].delItems
         /\ pend'[p].audit = pend[p].audit
         /\ todo'[p] = Tail(todo[p])
         /\ pc' = pc /\ oid' = oid /\ save' = save /\ batch' = batch /\ loaded' = loaded
         /\ orders' = orders /\ items' = items /\ audit' = audit
  <1>1. pend \in [Runners -> WriteSet] /\ pend[p] \in WriteSet
    BY DEF TypeOK
  <1>2. CASE AddItem(p)
    <2>1. PICK r : pend' = [pend EXCEPT ![p].insItems = @ \cup
             {ItemRow(p, r.sku, Len(Raw(p).items) - Len(todo[p]) + 1)}]
      BY <1>2 DEF AddItem
    <2>2. /\ pend'[p].insItems = pend[p].insItems \cup
                {ItemRow(p, r.sku, Len(Raw(p).items) - Len(todo[p]) + 1)}
          /\ pend'[p].orders = pend[p].orders /\ pend'[p].delItems = pend[p].delItems
          /\ pend'[p].audit = pend[p].audit
      BY <1>1, <2>1 DEF WriteSet
    <2> QED BY <1>2, <2>2 DEF AddItem, TypeOK, tableVars
  <1>3. CASE AddProductAndItem(p)
    <2> DEFINE r == NewProduct(Head(todo[p]))
    <2>1. pend' = [pend EXCEPT
             ![p].products = @ \cup {r},
             ![p].insItems = @ \cup {ItemRow(p, r.sku, Len(Raw(p).items) - Len(todo[p]) + 1)}]
      BY <1>3 DEF AddProductAndItem
    <2> HIDE DEF r
    <2>2. /\ pend'[p].insItems = pend[p].insItems \cup
                {ItemRow(p, r.sku, Len(Raw(p).items) - Len(todo[p]) + 1)}
          /\ pend'[p].orders = pend[p].orders /\ pend'[p].delItems = pend[p].delItems
          /\ pend'[p].audit = pend[p].audit
      BY <1>1, <2>1 DEF WriteSet
    <2> QED BY <1>3, <2>2 DEF AddProductAndItem, TypeOK, tableVars
  <1> QED BY <1>2, <1>3

LEMMA ItemsAdd ==
  ASSUME TypeOK, NEW p \in Runners, ItemsOfRun(p), AddItem(p) \/ AddProductAndItem(p)
  PROVE  ItemsOfRun(p)'
  <1> DEFINE n == Len(Raw(p).items) - Len(todo[p])
             ver == Head(batch[p]).ver
  <1>1. pc[p] = "items" /\ todo[p] # <<>> /\ pc'[p] = "items"
    BY AddWrites
  <1>2. PICK sku : pend'[p].insItems = pend[p].insItems \cup {ItemRow(p, sku, n + 1)}
    BY AddWrites
  <1> DEFINE i == ItemRow(p, sku, n + 1)
  <1>3. i.order = oid[p] /\ i.by = p /\ i.ver = ver /\ i.pos = n + 1
    BY DEF ItemRow
  <1>4. PICK w \in pend[p].orders : w.id = oid[p] /\ w.key = Ref(p)
    BY <1>1 DEF ItemsOfRun, ItemsUnderWay
  <1>5. Raw(p).items \in Seq(Line) /\ todo[p] \in Seq(Line)
    BY <1>1, HeadType DEF TypeOK, FlowOK, Payloads
  <1>6. n \in Nat /\ Len(Tail(todo[p])) = Len(todo[p]) - 1
    BY <1>1, <1>5 DEF ItemsOfRun, ItemsUnderWay
  <1>7. FirstItems(RowsFor(pend[p].insItems, oid[p]), p, ver, n)
    BY <1>1 DEF ItemsOfRun, ItemsUnderWay
  <1>8. Raw(p)' = Raw(p) /\ Ref(p)' = Ref(p)
    BY AddWrites DEF Raw, Ref
  <1>9. Len(Raw(p).items) - Len(Tail(todo[p])) = n + 1 /\ Len(Tail(todo[p])) <= Len(Raw(p).items)
    <2>1. Len(Raw(p).items) \in Nat /\ Len(todo[p]) \in Nat
      BY <1>5
    <2>2. \A a, b, c \in Nat : a - b \in Nat /\ c = b - 1 => a - c = (a - b) + 1 /\ c <= a
      OBVIOUS
    <2>3. Len(Tail(todo[p])) \in Nat
      BY <1>1, <1>5
    <2> QED BY <1>6, <2>1, <2>2, <2>3
  <1>a. /\ pend'[p].orders = pend[p].orders /\ pend'[p].delItems = pend[p].delItems
        /\ todo'[p] = Tail(todo[p])
        /\ oid' = oid /\ save' = save /\ batch' = batch /\ items' = items
    BY AddWrites
  <1> HIDE DEF i, n, ver
  <1>10. oid[p] \in IdsOf(pend[p].orders)
    BY <1>4 DEF IdsOf
  <1>11. WholeItems(pend'[p], items, oid[p])
         /\ RowsFor(pend'[p].insItems, oid[p]) = RowsFor(pend[p].insItems, oid[p]) \cup {i}
    <2>1. WholeItems(pend[p], items, oid[p])
      BY DEF ItemsOfRun
    <2>2. pend'[p].insItems = pend[p].insItems \cup {i}
      BY <1>2 DEF i
    <2>3. i.order = oid[p]
      BY <1>3
    <2>4. WholeItems(pend'[p], items, oid[p])
      BY <1>a, <1>10, <2>1, <2>2, <2>3, WholeAdd
    <2> QED BY <2>2, <2>3, <2>4 DEF RowsFor
  <1>12. FirstItems(RowsFor(pend'[p].insItems, oid[p]), p, ver, n + 1)
    BY <1>3, <1>6, <1>7, <1>11, NextItem
  <1>13. ItemsUnderWay(p)'
    BY <1>a, <1>1, <1>4, <1>8, <1>9, <1>12 DEF ItemsUnderWay, ver
  <1> QED BY <1>a, <1>11, <1>13 DEF ItemsOfRun

\* What is written when the order is done.
LEMMA FinishWrites ==
  ASSUME TypeOK, NEW p \in Runners, FinishOrder(p)
  PROVE  /\ pc[p] = "items" /\ todo[p] = <<>>
         /\ pend'[p].audit = pend[p].audit \cup
               {AuditRow(Ref(p), IF loaded[p] = None THEN "created" ELSE "updated",
                         "success", Head(batch[p]).ver)}
         /\ pend'[p].orders = pend[p].orders /\ pend'[p].delItems = pend[p].delItems
         /\ pend'[p].insItems = pend[p].insItems
         /\ save'[p] = NoWrites /\ oid'[p] = None /\ pc'[p] = "loop" /\ loaded'[p] = None
         /\ batch'[p] = Tail(batch[p])
         /\ orders' = orders /\ items' = items /\ audit' = audit
  <1>1. pend \in [Runners -> WriteSet] /\ pend[p] \in WriteSet
    BY DEF TypeOK
  <1> DEFINE a == AuditRow(Ref(p), IF loaded[p] = None THEN "created" ELSE "updated",
                           "success", Head(batch[p]).ver)
  <1>2. pend' = [pend EXCEPT ![p].audit = @ \cup {a}]
    BY DEF FinishOrder
  <1> HIDE DEF a
  <1>3. /\ pend'[p].audit = pend[p].audit \cup {a}
        /\ pend'[p].orders = pend[p].orders /\ pend'[p].delItems = pend[p].delItems
        /\ pend'[p].insItems = pend[p].insItems
    BY <1>1, <1>2 DEF WriteSet
  <1> QED BY <1>3 DEF FinishOrder, TypeOK, tableVars, a

\* The list of the order is complete.
LEMMA ItemsFinish ==
  ASSUME TypeOK, KeyInv, NEW p \in Runners, ItemsOfRun(p), FinishOrder(p)
  PROVE  ItemsOfRun(p)'
  <1> DEFINE rows == RowsFor(pend[p].insItems, oid[p])
             n == Len(Raw(p).items)
  <1>1. pc[p] = "items" /\ todo[p] = <<>>
    BY FinishWrites
  <1>2. PICK w \in pend[p].orders : w.id = oid[p] /\ w.key = Ref(p)
    BY <1>1 DEF ItemsOfRun, ItemsUnderWay
  <1>3. Raw(p).items \in Seq(Line)
    BY <1>1, HeadType DEF TypeOK, FlowOK, Payloads
  <1>4. n \in Nat /\ DOMAIN Raw(p).items = 1..n /\ n - Len(todo[p]) = n
    BY <1>1, <1>3
  <1>5. FirstItems(rows, p, Head(batch[p]).ver, n)
    BY <1>1, <1>4 DEF ItemsOfRun, ItemsUnderWay
  <1>6. DOMAIN Content[w.key][Head(batch[p]).ver].items = 1..n
    BY <1>2, <1>4 DEF Raw, Ref
  <1> HIDE DEF n
  <1>7. CompleteItems(rows, w)
    BY <1>4, <1>5, <1>6, LastItem
  <1> HIDE DEF rows
  <1>8. \A v \in pend[p].orders : v.id = oid[p] => v = w
    BY <1>2 DEF KeyInv, Ledger!Distinct
  <1>9. WholeItems(pend[p], items, None)
    <2>1. WholeItems(pend[p], items, oid[p])
      BY DEF ItemsOfRun
    <2> QED BY <1>2, <1>7, <1>8, <2>1 DEF WholeItems, rows
  <1>10. WholeItems(pend'[p], items, None)
    BY <1>9, FinishWrites, WholeSame
  <1>11. save'[p] = NoWrites /\ oid'[p] = None /\ pc'[p] = "loop" /\ items' = items
    BY FinishWrites
  <1> QED BY <1>10, <1>11, WholeNothing DEF ItemsOfRun, ItemsUnderWay

-----------------------------------------------------------------------------
(* Steps seen by the other runs, and the committed items.                  *)

\* A run that does not move keeps its items, as long as nobody adds committed
\* items to the orders it holds.
LEMMA ItemsAside ==
  ASSUME NEW q \in Runners, ItemsOfRun(q),
         pend'[q] = pend[q], save'[q] = save[q], pc'[q] = pc[q], batch'[q] = batch[q],
         oid'[q] = oid[q], todo'[q] = todo[q],
         \A w \in pend[q].orders \cup save[q].orders : RowsFor(items', w.id) \subseteq items
  PROVE  ItemsOfRun(q)'
  <1>1. WholeItems(pend[q], items', oid[q]) /\ WholeItems(save[q], items', None)
    BY WholeBeside DEF ItemsOfRun
  <1>2. Raw(q)' = Raw(q) /\ Ref(q)' = Ref(q)
    BY DEF Raw, Ref
  <1>3. ItemsUnderWay(q)'
    BY <1>2 DEF ItemsOfRun, ItemsUnderWay
  <1> QED BY <1>1, <1>3 DEF ItemsOfRun

\* The ids a savepoint holds are ids its transaction holds.
LEMMA SavedIds ==
  ASSUME KeyInv, NEW q \in Runners
  PROVE  IdsOf(save[q].orders) \subseteq IdsOf(pend[q].orders)
         /\ KeysOf(save[q].orders) \subseteq KeysOf(pend[q].orders)
  BY DEF KeyInv, Ledger!Kept, IdsOf, KeysOf

\* Every step of a run but its commit.
LEMMA ItemsQuiet ==
  ASSUME TypeOK, KeyInv, ItemsInv, NEW p \in Runners, RunnerStep(p) \/ Crash(p), ~Commit(p)
  PROVE  ItemsInv'
  <1>1. orders' = orders /\ items' = items
    BY TablesKeep DEF tableVars
  <1>2. ItemsOfRun(p)
    BY DEF ItemsInv
  <1>3. ItemsOfRun(p)'
    <2>1. CASE \/ FetchExternalOrders(p) \/ ProductLookup(p) \/ SkipInvalid(p)
               \/ ResolveCustomer(p) \/ InsertCustomer(p) \/ SelectOrder(p)
      BY <1>2, <2>1, ItemsEarly
    <2>2. CASE NormalizeRaises(p) \/ Crash(p)
      BY <2>2, ItemsReset DEF NormalizeRaises, Crash
    <2>3. CASE \/ InsertCustomerRefused(p) \/ InsertOrderRefused(p) \/ AddItemRefused(p)
               \/ AddProductRefused(p) \/ DeadlockVictim(p)
      BY <1>2, <2>3, FailsAtWork, ItemsFail
    <2>4. CASE InsertOrder(p)
      <3>1. pc[p] = "write" /\ NewId \in OrderIds /\ StoreOrder(p, SyncedColumns(p, NewId))
        BY <2>4, NewIdFresh DEF InsertOrder
      <3>2. SyncedColumns(p, NewId) \in OrderRow /\ SyncedColumns(p, NewId).key = Ref(p)
        BY <3>1, SyncedColumnsType
      <3> QED BY <1>2, <3>1, <3>2, ItemsStore
    <2>5. CASE UpdateOrder(p)
      <3>1. PICK row \in OrderRow : StoreOrder(p, row) /\ row.key = Ref(p)
        BY <2>5, UpdateRow
      <3>2. pc[p] = "write"
        BY <2>5 DEF UpdateOrder
      <3> QED BY <1>2, <3>1, <3>2, ItemsStore
    <2>6. CASE AddItem(p) \/ AddProductAndItem(p)
      BY <1>2, <2>6, ItemsAdd
    <2>7. CASE FinishOrder(p)
      BY <1>2, <2>7, ItemsFinish
    <2> QED BY <2>1, <2>2, <2>3, <2>4, <2>5, <2>6, <2>7 DEF RunnerStep
  <1>4. ASSUME NEW q \in Runners \ {p} PROVE ItemsOfRun(q)'
    <2>1. ItemsOfRun(q)
      BY DEF ItemsInv
    <2>2. \A w \in pend[q].orders \cup save[q].orders : RowsFor(items', w.id) \subseteq items
      BY <1>1 DEF RowsFor
    <2> QED BY <2>1, <2>2, OthersKeep, ItemsAside
  <1>5. ItemsAreOneVersion'
    BY <1>1 DEF ItemsInv, ItemsAreOneVersion, ItemsOf
  <1> QED BY <1>1, <1>3, <1>4, <1>5 DEF ItemsInv

\* A commit replaces the items of the orders it stores, all at once.
LEMMA ItemsCommit ==
  ASSUME TypeOK, KeyInv, ItemsInv, NEW p \in Runners, Commit(p)
  PROVE  ItemsInv'
  <1> DEFINE W == pend[p]
  <1>1. /\ orders' = {r \in orders : r.id \notin IdsOf(W.orders)} \cup W.orders
        /\ items' = (items \ W.delItems) \cup W.insItems
        /\ Reset(p) /\ pc[p] = "loop"
    BY DEF Commit, Overlay, VisibleItems
  <1>2. WholeItems(W, items, None)
    BY <1>1 DEF ItemsInv, ItemsOfRun, ItemsUnderWay
  <1>3. \A i \in W.insItems \cup W.delItems : i.order \in IdsOf(W.orders)
    BY <1>2 DEF WholeItems
  <1>4. ASSUME NEW i \in items' PROVE i.order \in IdsOf(orders')
    <2>1. CASE i.order \in IdsOf(W.orders)
      BY <1>1, <2>1 DEF IdsOf
    <2>2. CASE i.order \notin IdsOf(W.orders)
      <3>1. i \in items
        BY <1>1, <1>3, <2>2
      <3>2. PICK o \in orders : o.id = i.order
        BY <3>1 DEF ItemsInv, IdsOf
      <3>3. o \in orders'
        BY <1>1, <2>2, <3>2
      <3> QED BY <3>2, <3>3 DEF IdsOf
    <2> QED BY <2>1, <2>2
  <1>5. ASSUME NEW o \in orders' PROVE CompleteItems(RowsFor(items', o.id), o)
    <2>1. CASE o \in W.orders
      <3>1. RowsFor(items', o.id) = RowsFor(W.insItems, o.id)
        BY <1>1, <1>2, <2>1 DEF WholeItems, RowsFor
      <3>2. o.id # None
        BY <2>1, ConstantsAssumption DEF TypeOK, WriteSet, OrderRow
      <3> QED BY <1>2, <2>1, <3>1, <3>2 DEF WholeItems
    <2>2. CASE o \notin W.orders
      <3>1. o \in orders /\ o.id \notin IdsOf(W.orders)
        BY <1>1, <2>2
      <3>2. RowsFor(items', o.id) = RowsFor(items, o.id)
        BY <1>1, <1>3, <3>1 DEF RowsFor
      <3>3. CompleteItems(RowsFor(items, o.id), o)
        BY <3>1 DEF ItemsInv, ItemsAreOneVersion, ItemsOf, RowsFor
      <3> QED BY <3>2, <3>3
    <2> QED BY <2>1, <2>2
  <1>6. ItemsAreOneVersion'
    BY <1>5 DEF ItemsAreOneVersion, ItemsOf, RowsFor
  <1>7. ASSUME NEW q \in Runners \ {p} PROVE ItemsOfRun(q)'
    <2>1. ItemsOfRun(q) /\ Disjoint(W.orders, pend[q].orders)
      BY DEF ItemsInv, KeyInv
    <2>2. ASSUME NEW w \in pend[q].orders \cup save[q].orders
          PROVE  RowsFor(items', w.id) \subseteq items
      <3>1. w.id \in IdsOf(pend[q].orders)
        BY SavedIds DEF IdsOf
      <3>2. w.id \notin IdsOf(W.orders)
        BY <2>1, <3>1 DEF IdsOf, Disjoint
      <3> QED BY <1>1, <1>3, <3>2 DEF RowsFor
    <2> QED BY <2>1, <2>2, OthersKeep, ItemsAside DEF RunnerStep
  <1>8. ItemsOfRun(p)'
    BY <1>1, ItemsReset
  <1> QED BY <1>4, <1>6, <1>7, <1>8 DEF ItemsInv

\* A post adds an order under a new id, and its item.
LEMMA ItemsPost ==
  ASSUME TypeOK, KeyInv, ItemsInv, NEW ref, NEW e \in customers, CreateOrder(ref, e)
  PROVE  ItemsInv'
  <1>1. NewId \in OrderIds /\ NewId \notin UsedIds
    BY NewIdFresh DEF CreateOrder
  <1>2. PICK key, sku :
           /\ orders' = orders \cup {PostedRow(NewId, key, e)}
           /\ items' = items \cup
                 {[order |-> NewId, by |-> None, ver |-> 0, pos |-> 1, sku |-> sku]}
    BY DEF CreateOrder
  <1> DEFINE item == [order |-> NewId, by |-> None, ver |-> 0, pos |-> 1, sku |-> sku]
             row == PostedRow(NewId, key, e)
  <1>3. item.order = NewId /\ item.by = None /\ row.id = NewId
    BY DEF PostedRow
  <1> HIDE DEF item, row
  <1>4. orders' = orders \cup {row} /\ items' = items \cup {item}
    BY <1>2 DEF item, row
  <1>5. \A i \in items : i.order # NewId
    BY <1>1 DEF ItemsInv, UsedIds
  <1>6. \A o \in orders : o.id # NewId
    BY <1>1 DEF UsedIds, IdsOf
  <1>7. \A q \in Runners : NewId \notin IdsOf(pend[q].orders)
    BY <1>1 DEF UsedIds
  <1>8. \A i \in items' : i.order \in IdsOf(orders')
    BY <1>3, <1>4 DEF ItemsInv, IdsOf
  <1>9. ASSUME NEW o \in orders' PROVE CompleteItems(ItemsOf(o)', o)
    <2>1. CASE o = row
      <3>1. ItemsOf(o)' = {item}
        BY <1>3, <1>4, <1>5, <2>1 DEF ItemsOf
      <3> QED BY <1>3, <3>1 DEF CompleteItems
    <2>2. CASE o \in orders
      <3>1. ItemsOf(o)' = ItemsOf(o)
        BY <1>3, <1>4, <1>6, <2>2 DEF ItemsOf
      <3> QED BY <2>2, <3>1 DEF ItemsInv, ItemsAreOneVersion
    <2> QED BY <1>4, <2>1, <2>2
  <1>10. ItemsAreOneVersion'
    BY <1>9 DEF ItemsAreOneVersion
  <1>11. ASSUME NEW q \in Runners PROVE ItemsOfRun(q)'
    <2>1. ItemsOfRun(q)
      BY DEF ItemsInv
    <2>2. ASSUME NEW w \in pend[q].orders \cup save[q].orders
          PROVE  RowsFor(items', w.id) \subseteq items
      <3>1. w.id \in IdsOf(pend[q].orders)
        BY SavedIds DEF IdsOf
      <3>2. w.id # NewId
        BY <1>7, <3>1
      <3> QED BY <1>3, <1>4, <3>2 DEF RowsFor
    <2>3. UNCHANGED <<pend, save, pc, batch, oid, todo>>
      BY DEF CreateOrder, runVars
    <2> QED BY <2>1, <2>2, <2>3, ItemsAside
  <1> QED BY <1>8, <1>10, <1>11 DEF ItemsInv

\* A step outside the runs that leaves the items alone and keeps the id and
\* the key of every order.
LEMMA ItemsEnv ==
  ASSUME ItemsInv, items' = items, UNCHANGED runVars,
         Ledger!Kept(orders, orders'), Ledger!Kept(orders', orders)
  PROVE  ItemsInv'
  <1>1. \A i \in items' : i.order \in IdsOf(orders')
    BY DEF ItemsInv, Ledger!Kept, IdsOf
  <1>2. ASSUME NEW o \in orders' PROVE CompleteItems(ItemsOf(o)', o)
    <2>1. PICK b \in orders : b.id = o.id /\ b.key = o.key
      BY DEF Ledger!Kept
    <2>2. ItemsOf(o)' = ItemsOf(b)
      BY <2>1 DEF ItemsOf
    <2>3. CompleteItems(ItemsOf(b), b)
      BY DEF ItemsInv, ItemsAreOneVersion
    <2> QED BY <2>1, <2>2, <2>3 DEF CompleteItems
  <1>3. ItemsAreOneVersion'
    BY <1>2 DEF ItemsAreOneVersion
  <1>4. ASSUME NEW q \in Runners PROVE ItemsOfRun(q)'
    <2>1. ItemsOfRun(q)
      BY DEF ItemsInv
    <2>2. \A w \in pend[q].orders \cup save[q].orders : RowsFor(items', w.id) \subseteq items
      BY DEF RowsFor
    <2>3. UNCHANGED <<pend, save, pc, batch, oid, todo>>
      BY DEF runVars
    <2> QED BY <2>1, <2>2, <2>3, ItemsAside
  <1> QED BY <1>1, <1>3, <1>4 DEF ItemsInv

\* What a patch makes of the rows.
LEMMA PatchedRows ==
  ASSUME TypeOK, NEW c \in Clients, PatchWrite(c)
  PROVE  \E f : /\ orders' = {f[r] : r \in orders}
                /\ \A r \in orders : /\ f[r].id = r.id /\ f[r].key = r.key
                                     /\ f[r].ver = r.ver /\ f[r].sync = r.sync
  <1>1. patch[c] \in [row : OrderRow, status : Statuses]
    BY DEF PatchWrite, TypeOK
  <1> DEFINE old == patch[c].row
             new == [old EXCEPT !.status = patch[c].status,
                                !.backlog = Backlog(patch[c].status, PatchBacklogStatuses)]
             f == [r \in orders |-> IF r.id = old.id THEN DirtyUpdate(r, old, new) ELSE r]
  <1>2. /\ old \in OrderRow /\ new \in OrderRow
        /\ new.ver = old.ver /\ new.sync = old.sync
    BY <1>1 DEF OrderRow, Backlog
  <1>3. orders' = {f[r] : r \in orders}
    BY DEF PatchWrite
  <1> HIDE DEF old, new
  <1>4. ASSUME NEW r \in orders
        PROVE  f[r].id = r.id /\ f[r].key = r.key /\ f[r].ver = r.ver /\ f[r].sync = r.sync
    <2>1. r \in OrderRow
      BY DEF TypeOK
    <2>2. DirtyUpdate(r, old, new).id = r.id /\ DirtyUpdate(r, old, new).key = r.key
      BY <1>2, <2>1, DirtyUpdateType
    <2>3. DirtyUpdate(r, old, new).ver = r.ver /\ DirtyUpdate(r, old, new).sync = r.sync
      BY <1>2, <2>1 DEF DirtyUpdate, Dirty, OrderRow
    <2> QED BY <2>2, <2>3
  <1> QED BY <1>3, <1>4

\* Every step keeps the invariant.
LEMMA ItemsStep ==
  ASSUME TypeOK, KeyInv, ItemsInv, [Next]_vars
  PROVE  ItemsInv'
  <1>1. ASSUME NEW p \in Runners, RunnerStep(p) \/ Crash(p) PROVE ItemsInv'
    BY <1>1, ItemsQuiet, ItemsCommit
  <1>2. ASSUME NEW r, NEW e \in customers, CreateOrder(r, e) PROVE ItemsInv'
    BY <1>2, ItemsPost
  <1>3. ASSUME NEW c \in Clients, PatchWrite(c) PROVE ItemsInv'
    <2>1. items' = items /\ UNCHANGED runVars
      BY <1>3 DEF PatchWrite
    <2>2. Ledger!Kept(orders, orders') /\ Ledger!Kept(orders', orders)
      BY <1>3, PatchedRows DEF Ledger!Kept
    <2> QED BY <2>1, <2>2, ItemsEnv
  <1>4. ASSUME UNCHANGED tableVars, UNCHANGED runVars PROVE ItemsInv'
    BY <1>4, ItemsEnv DEF tableVars, Ledger!Kept
  <1>5. CASE UNCHANGED vars
    BY <1>4, <1>5 DEF vars, tableVars, runVars
  <1> QED BY <1>1, <1>2, <1>3, <1>4, <1>5, RunsKeep, TablesKeepToo

\* Nothing is stored.
LEMMA ItemsInit == Init => ItemsInv
  BY WholeNothing DEF Init, ItemsInv, ItemsOfRun, ItemsUnderWay, ItemsAreOneVersion

\* However runs of several replicas, posts and patches interleave, wherever a
\* run crashes, is rolled back to a savepoint or loses a deadlock, the
\* committed items of an order are the whole list of one version, stored by
\* one run (_replace_order_items).
THEOREM ItemsWhole == Spec => []ItemsAreOneVersion
  <1>1. TypeOK /\ KeyInv /\ ItemsInv /\ [Next]_vars => ItemsInv'
    BY ItemsStep
  <1>2. ItemsInv => ItemsAreOneVersion
    BY DEF ItemsInv
  <1> QED BY <1>1, <1>2, ItemsInit, TypeCorrect, KeysAgree, PTL DEF Spec

-----------------------------------------------------------------------------
(* The inductive invariant behind ItemsMatchOrder, for runs that do not    *)
(* overlap.  (When they do it is not an invariant: an UPDATE leaves out    *)
(* the version its SELECT has read, see DirtyUpdate, and keeps the one     *)
(* another run has committed meanwhile.)                                   *)

\* But for the order open, the items a write set adds are of its rows' version.
ItemsMatch(W, open) ==
    \A w \in W.orders : w.id # open => \A i \in RowsFor(W.insItems, w.id) : i.ver = w.ver

\* The row an UPDATE will write has kept the version it was loaded with; the
\* order under way is of the version in hand.
MatchUnderWay(p) ==
    /\ pc[p] = "write" /\ loaded[p] # None =>
          \A r \in VisibleOrders(p) : r.id = loaded[p].id => r.ver = loaded[p].ver
    /\ pc[p] = "items" =>
          \A w \in pend[p].orders : w.id = oid[p] => w.ver = Head(batch[p]).ver

MatchOfRun(p) ==
    /\ ItemsMatch(pend[p], oid[p])
    /\ ItemsMatch(save[p], None)
    /\ MatchUnderWay(p)

MatchInv ==
    /\ ItemsMatchOrder
    /\ \A p \in Runners : MatchOfRun(p)

\* A transaction that has written nothing holds no items.
LEMMA MatchNothing ==
  ASSUME NEW open
  PROVE  ItemsMatch(NoWrites, open)
  BY DEF ItemsMatch, NoWrites

\* The visible rows have distinct ids.
LEMMA VisibleDistinct ==
  ASSUME KeyInv, NEW p \in Runners
  PROVE  \A a, b \in VisibleOrders(p) : a.id = b.id => a = b
  BY DEF KeyInv, Ledger!Distinct, VisibleOrders, Overlay, IdsOf

LEMMA MatchEarly ==
  ASSUME TypeOK, KeyInv, NEW p \in Runners, ItemsOfRun(p), MatchOfRun(p),
         \/ FetchExternalOrders(p) \/ ProductLookup(p) \/ SkipInvalid(p)
         \/ ResolveCustomer(p) \/ InsertCustomer(p) \/ SelectOrder(p)
  PROVE  MatchOfRun(p)'
  <1>1. /\ orders' = orders /\ oid' = oid /\ pc[p] # "items" /\ pc'[p] # "items"
        /\ pend'[p].orders = pend[p].orders /\ pend'[p].insItems = pend[p].insItems
        /\ save'[p] \in {save[p], pend[p]}
    BY EarlyWrites
  <1>2. oid[p] = None
    BY <1>1 DEF ItemsOfRun, ItemsUnderWay
  <1>3. ItemsMatch(pend'[p], None) /\ ItemsMatch(save'[p], None)
    BY <1>1, <1>2 DEF MatchOfRun, ItemsMatch
  <1>4. MatchUnderWay(p)'
    <2>1. CASE SelectOrder(p)
      <3>1. loaded'[p] = IF Ref(p) \in KeysOf(VisibleOrders(p))
                         THEN CHOOSE r \in VisibleOrders(p) : r.key = Ref(p) ELSE None
        BY <2>1 DEF SelectOrder, TypeOK
      <3>2. loaded'[p] # None => loaded'[p] \in VisibleOrders(p)
        BY <3>1 DEF KeysOf
      <3>3. VisibleOrders(p)' = VisibleOrders(p)
        BY <1>1 DEF VisibleOrders
      <3> QED BY <1>1, <3>2, <3>3, VisibleDistinct DEF MatchUnderWay
    <2>2. CASE ~SelectOrder(p)
      <3>1. pc'[p] # "write"
        BY <2>2 DEF FetchExternalOrders, ProductLookup, SkipInvalid, ResolveCustomer,
                    InsertCustomer, TypeOK
      <3> QED BY <1>1, <3>1 DEF MatchUnderWay
    <2> QED BY <2>1, <2>2
  <1> QED BY <1>1, <1>2, <1>3, <1>4 DEF MatchOfRun

LEMMA MatchReset ==
  ASSUME TypeOK, NEW p \in Runners, Reset(p)
  PROVE  MatchOfRun(p)'
  <1>1. pend'[p] = NoWrites /\ save'[p] = NoWrites /\ pc'[p] = "idle"
    BY DEF Reset, TypeOK
  <1> QED BY <1>1, MatchNothing DEF MatchOfRun, MatchUnderWay

\* The savepoint fails: back to the orders that were done before.
LEMMA MatchFail ==
  ASSUME TypeOK, NEW p \in Runners, MatchOfRun(p), FailOrder(p)
  PROVE  MatchOfRun(p)'
  <1>1. ItemsMatch(pend'[p], None)
    BY FailWrites DEF MatchOfRun, ItemsMatch
  <1> QED BY <1>1, FailWrites, MatchNothing DEF MatchOfRun, MatchUnderWay

\* The row that is stored is of the version in hand: an INSERT gives it, and an
\* UPDATE leaves it out only when the row, unchanged since its SELECT, has it.
LEMMA MatchStore ==
  ASSUME TypeOK, KeyInv, NEW p \in Runners, ItemsOfRun(p), MatchOfRun(p),
         InsertOrder(p) \/ UpdateOrder(p)
  PROVE  MatchOfRun(p)'
  <1>1. pc[p] = "write" /\ oid[p] = None
    BY DEF InsertOrder, UpdateOrder, ItemsOfRun, ItemsUnderWay
  <1>2. PICK row : StoreOrder(p, row) /\ row.ver = Head(batch[p]).ver
    <2>1. CASE InsertOrder(p)
      <3>1. SyncedColumns(p, NewId).ver = Head(batch[p]).ver
        BY DEF SyncedColumns
      <3> QED BY <2>1, <3>1 DEF InsertOrder
    <2>2. CASE UpdateOrder(p)
      <3>1. loaded[p] # None
        BY <2>2 DEF UpdateOrder
      <3>2. PICK current \in VisibleOrders(p), row \in OrderRow :
               /\ row = DirtyUpdate(current, loaded[p], SyncedColumns(p, current.id))
               /\ StoreOrder(p, row) /\ current.id = loaded[p].id
        BY <2>2, UpdateRow
      <3>3. current \in OrderRow
        BY DEF VisibleOrders, Overlay, TypeOK, WriteSet
      <3>4. row.ver = Dirty(current.ver, loaded[p].ver, Head(batch[p]).ver)
        BY <3>2, <3>3 DEF DirtyUpdate, SyncedColumns, OrderRow
      <3>5. current.ver = loaded[p].ver
        BY <1>1, <3>1, <3>2 DEF MatchOfRun, MatchUnderWay
      <3> QED BY <3>2, <3>4, <3>5 DEF Dirty
    <2> QED BY <2>1, <2>2
  <1>3. /\ pend'[p].orders = Overlay(pend[p].orders, {row})
        /\ pend'[p].insItems = {i \in pend[p].insItems : i.order # row.id}
        /\ save' = save /\ batch' = batch /\ oid'[p] = row.id /\ pc'[p] = "items"
    BY <1>2, StoreWrites
  <1>4. ASSUME NEW w \in pend'[p].orders, w.id # row.id, NEW i \in RowsFor(pend'[p].insItems, w.id)
        PROVE  i.ver = w.ver
    <2>1. w \in pend[p].orders /\ i \in RowsFor(pend[p].insItems, w.id)
      BY <1>3, <1>4 DEF Overlay, IdsOf, RowsFor
    <2>2. w.id # None
      BY <2>1, ConstantsAssumption DEF TypeOK, WriteSet, OrderRow
    <2> QED BY <1>1, <2>1, <2>2 DEF MatchOfRun, ItemsMatch
  <1>5. \A w \in pend'[p].orders : w.id = row.id => w = row
    BY <1>3 DEF Overlay, IdsOf
  <1> QED BY <1>2, <1>3, <1>4, <1>5 DEF MatchOfRun, MatchUnderWay, ItemsMatch

\* An item is added to the open order.
LEMMA MatchAdd ==
  ASSUME TypeOK, NEW p \in Runners, MatchOfRun(p), AddItem(p) \/ AddProductAndItem(p)
  PROVE  MatchOfRun(p)'
  <1>1. PICK sku : pend'[p].insItems = pend[p].insItems \cup
           {ItemRow(p, sku, Len(Raw(p).items) - Len(todo[p]) + 1)}
    BY AddWrites
  <1> DEFINE i == ItemRow(p, sku, Len(Raw(p).items) - Len(todo[p]) + 1)
  <1>2. i.order = oid[p]
    BY DEF ItemRow
  <1> HIDE DEF i
  <1>3. pend'[p].insItems = pend[p].insItems \cup {i}
    BY <1>1 DEF i
  <1>4. /\ pend'[p].orders = pend[p].orders /\ pc[p] = "items" /\ pc' = pc /\ oid' = oid
        /\ save' = save /\ batch' = batch
    BY AddWrites
  <1>5. \A w \in pend[p].orders :
           w.id # oid[p] => RowsFor(pend'[p].insItems, w.id) = RowsFor(pend[p].insItems, w.id)
    BY <1>2, <1>3 DEF RowsFor
  <1> QED BY <1>4, <1>5 DEF MatchOfRun, MatchUnderWay, ItemsMatch

\* The order that is done has the version of its items: that in hand.
LEMMA MatchFinish ==
  ASSUME TypeOK, NEW p \in Runners, ItemsOfRun(p), MatchOfRun(p), FinishOrder(p)
  PROVE  MatchOfRun(p)'
  <1>1. /\ pc[p] = "items" /\ pc'[p] = "loop" /\ save'[p] = NoWrites /\ oid'[p] = None
        /\ pend'[p].orders = pend[p].orders /\ pend'[p].insItems = pend[p].insItems
    BY FinishWrites
  <1>2. \A i \in RowsFor(pend[p].insItems, oid[p]) : i.ver = Head(batch[p]).ver
    BY <1>1 DEF ItemsOfRun, ItemsUnderWay, FirstItems
  <1>3. \A w \in pend[p].orders : w.id = oid[p] => w.ver = Head(batch[p]).ver
    BY <1>1 DEF MatchOfRun, MatchUnderWay
  <1>4. ItemsMatch(pend'[p], None)
    BY <1>1, <1>2, <1>3 DEF MatchOfRun, ItemsMatch
  <1> QED BY <1>1, <1>4, MatchNothing DEF MatchOfRun, MatchUnderWay

\* A commit replaces a row and its items together.
LEMMA MatchCommit ==
  ASSUME TypeOK, ItemsInv, MatchInv, NEW p \in Runners, Commit(p)
  PROVE  ItemsMatchOrder'
  <1> DEFINE W == pend[p]
  <1>1. /\ orders' = {r \in orders : r.id \notin IdsOf(W.orders)} \cup W.orders
        /\ items' = (items \ W.delItems) \cup W.insItems /\ pc[p] = "loop"
    BY DEF Commit, Overlay, VisibleItems
  <1>2. WholeItems(W, items, None) /\ ItemsMatch(W, None)
    BY <1>1 DEF ItemsInv, ItemsOfRun, ItemsUnderWay, MatchInv, MatchOfRun
  <1>3. ASSUME NEW o \in orders', NEW i \in items', i.order = o.id PROVE i.ver = o.ver
    <2>1. CASE o \in W.orders
      <3>1. i \in RowsFor(W.insItems, o.id)
        BY <1>1, <1>2, <1>3, <2>1 DEF WholeItems, RowsFor
      <3>2. o.id # None
        BY <2>1, ConstantsAssumption DEF TypeOK, WriteSet, OrderRow
      <3> QED BY <1>2, <2>1, <3>1, <3>2 DEF ItemsMatch
    <2>2. CASE o \notin W.orders
      <3>1. o \in orders /\ o.id \notin IdsOf(W.orders)
        BY <1>1, <2>2
      <3>2. i \in items
        BY <1>1, <1>2, <1>3, <3>1 DEF WholeItems
      <3> QED BY <1>3, <3>1, <3>2 DEF MatchInv, ItemsMatchOrder, ItemsOf
    <2> QED BY <2>1, <2>2
  <1> QED BY <1>3 DEF ItemsMatchOrder, ItemsOf

\* A step of the only run.
LEMMA MatchRun ==
  ASSUME \A p, q \in Runners : p = q,
         TypeOK, KeyInv, ItemsInv, MatchInv, NEW p \in Runners, RunnerStep(p) \/ Crash(p)
  PROVE  MatchInv'
  <1>1. ItemsOfRun(p) /\ MatchOfRun(p)
    BY DEF ItemsInv, MatchInv
  <1>2. MatchOfRun(p)'
    <2>1. CASE \/ FetchExternalOrders(p) \/ ProductLookup(p) \/ SkipInvalid(p)
               \/ ResolveCustomer(p) \/ InsertCustomer(p) \/ SelectOrder(p)
      BY <1>1, <2>1, MatchEarly
    <2>2. CASE NormalizeRaises(p) \/ Crash(p) \/ Commit(p)
      BY <2>2, MatchReset DEF NormalizeRaises, Crash, Commit
    <2>3. CASE \/ InsertCustomerRefused(p) \/ InsertOrderRefused(p) \/ AddItemRefused(p)
               \/ AddProductRefused(p) \/ DeadlockVictim(p)
      BY <1>1, <2>3, FailsAtWork, MatchFail
    <2>4. CASE InsertOrder(p) \/ UpdateOrder(p)
      BY <1>1, <2>4, MatchStore
    <2>5. CASE AddItem(p) \/ AddProductAndItem(p)
      BY <1>1, <2>5, MatchAdd
    <2>6. CASE FinishOrder(p)
      BY <1>1, <2>6, MatchFinish
    <2> QED BY <2>1, <2>2, <2>3, <2>4, <2>5, <2>6 DEF RunnerStep
  <1>3. ItemsMatchOrder'
    <2>1. CASE Commit(p)
      BY <2>1, MatchCommit
    <2>2. CASE ~Commit(p)
      <3>1. orders' = orders /\ items' = items
        BY <2>2, TablesKeep DEF tableVars
      <3> QED BY <3>1 DEF MatchInv, ItemsMatchOrder, ItemsOf
    <2> QED BY <2>1, <2>2
  <1> QED BY <1>2, <1>3 DEF MatchInv

\* A step outside the runs that keeps the version of every order, or adds one
\* under an id nobody has used.
LEMMA MatchEnv ==
  ASSUME KeyInv, MatchInv, UNCHANGED runVars, ItemsMatchOrder',
         \A r \in orders' : r.id \notin UsedIds \/ \E b \in orders : b.id = r.id /\ b.ver = r.ver
  PROVE  MatchInv'
  <1>1. ASSUME NEW q \in Runners, pc[q] = "write", loaded[q] # None,
               NEW r \in VisibleOrders(q)', r.id = loaded[q].id
        PROVE  r.ver = loaded[q].ver
    <2>1. r \in pend[q].orders \/ (r \in orders' /\ r.id \notin IdsOf(pend[q].orders))
      BY DEF VisibleOrders, Overlay, runVars
    <2>2. CASE r \in pend[q].orders
      BY <1>1, <2>2 DEF VisibleOrders, Overlay, MatchInv, MatchOfRun, MatchUnderWay
    <2>3. ASSUME NEW b \in orders, b.id = r.id, r.id \notin IdsOf(pend[q].orders)
          PROVE  b.ver = loaded[q].ver
      <3>1. b \in VisibleOrders(q)
        BY <2>3 DEF VisibleOrders, Overlay
      <3> QED BY <1>1, <2>3, <3>1 DEF MatchInv, MatchOfRun, MatchUnderWay
    <2>4. r.id \in UsedIds
      <3>1. PICK b \in VisibleOrders(q) : b.id = loaded[q].id
        BY <1>1 DEF KeyInv, Ledger!Kept
      <3>2. b \in orders \cup pend[q].orders
        BY DEF VisibleOrders, Overlay
      <3> QED BY <1>1, <3>1, <3>2 DEF UsedIds, IdsOf
    <2> QED BY <2>1, <2>2, <2>3, <2>4
  <1>2. ASSUME NEW q \in Runners PROVE MatchOfRun(q)'
    <2>1. MatchOfRun(q)
      BY DEF MatchInv
    <2>2. MatchUnderWay(q)'
      BY <1>1, <2>1 DEF MatchOfRun, MatchUnderWay, runVars
    <2> QED BY <2>1, <2>2 DEF MatchOfRun, runVars
  <1> QED BY <1>2 DEF MatchInv

\* Every step keeps the invariant.
LEMMA MatchStep ==
  ASSUME \A p, q \in Runners : p = q, TypeOK, KeyInv, ItemsInv, MatchInv, [Next]_vars
  PROVE  MatchInv'
  <1>1. ASSUME NEW p \in Runners, RunnerStep(p) \/ Crash(p) PROVE MatchInv'
    BY <1>1, MatchRun
  <1>2. ASSUME NEW r, NEW e \in customers, CreateOrder(r, e) PROVE MatchInv'
    <2>1. NewId \notin UsedIds /\ UNCHANGED runVars
      BY <1>2, NewIdFresh DEF CreateOrder
    <2>2. PICK key, sku :
             /\ orders' = orders \cup {PostedRow(NewId, key, e)}
             /\ items' = items \cup
                   {[order |-> NewId, by |-> None, ver |-> 0, pos |-> 1, sku |-> sku]}
      BY <1>2 DEF CreateOrder
    <2> DEFINE item == [order |-> NewId, by |-> None, ver |-> 0, pos |-> 1, sku |-> sku]
               row == PostedRow(NewId, key, e)
    <2>3. item.order = NewId /\ item.ver = 0 /\ row.id = NewId /\ row.ver = 0
      BY DEF PostedRow
    <2> HIDE DEF item, row
    <2>4. orders' = orders \cup {row} /\ items' = items \cup {item}
      BY <2>2 DEF item, row
    <2>5. NewId \notin IdsOf(orders)
      BY <2>1 DEF UsedIds
    <2>6. (\A i \in items : i.order # NewId) /\ (\A o \in orders : o.id # NewId)
      BY <2>5 DEF ItemsInv, IdsOf
    <2>7. ItemsMatchOrder'
      BY <2>3, <2>4, <2>6 DEF MatchInv, ItemsMatchOrder, ItemsOf
    <2> QED BY <2>1, <2>3, <2>4, <2>7, MatchEnv
  <1>3. ASSUME NEW c \in Clients, PatchWrite(c) PROVE MatchInv'
    <2>1. PICK f : /\ orders' = {f[r] : r \in orders}
                   /\ \A r \in orders : /\ f[r].id = r.id /\ f[r].key = r.key
                                        /\ f[r].ver = r.ver /\ f[r].sync = r.sync
      BY <1>3, PatchedRows
    <2>2. items' = items /\ UNCHANGED runVars
      BY <1>3 DEF PatchWrite
    <2>3. ItemsMatchOrder'
      BY <2>1, <2>2 DEF MatchInv, ItemsMatchOrder, ItemsOf
    <2> QED BY <2>1, <2>2, <2>3, MatchEnv
  <1>4. ASSUME UNCHANGED tableVars, UNCHANGED runVars PROVE MatchInv'
    <2>1. orders' = orders /\ items' = items
      BY <1>4 DEF tableVars
    <2>2. ItemsMatchOrder'
      BY <2>1 DEF MatchInv, ItemsMatchOrder, ItemsOf
    <2> QED BY <1>4, <2>1, <2>2, MatchEnv
  <1>5. CASE UNCHANGED vars
    BY <1>4, <1>5 DEF vars, tableVars, runVars
  <1> QED BY <1>1, <1>2, <1>3, <1>4, <1>5, RunsKeep, TablesKeepToo

LEMMA MatchInit == Init => MatchInv
  BY MatchNothing DEF Init, MatchInv, MatchOfRun, MatchUnderWay, ItemsMatchOrder

\* With one runner (one replica, and no POST /api/orders/sync during a run of
\* its loop) the items of an order are those of the version its row describes,
\* whatever is posted, patched, rolled back or killed meanwhile.
THEOREM ItemsFollowOrder ==
  ASSUME \A p, q \in Runners : p = q
  PROVE  Spec => []ItemsMatchOrder
  <1>1. TypeOK /\ KeyInv /\ ItemsInv /\ MatchInv /\ [Next]_vars => ItemsInv' /\ MatchInv'
    BY ItemsStep, MatchStep
  <1>2. MatchInv => ItemsMatchOrder
    BY DEF MatchInv
  <1> QED BY <1>1, <1>2, ItemsInit, MatchInit, TypeCorrect, KeysAgree, PTL DEF Spec

=============================================================================
