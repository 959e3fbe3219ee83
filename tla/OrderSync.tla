----------------------------- MODULE OrderSync -----------------------------
(***************************************************************************)
(* The order pipeline of the CRM: the pull synchronisation of external     *)
(* orders (server/order_sync.py), run by the background loop of every      *)
(* replica (server/main.py) and by POST /api/orders/sync, against the      *)
(* routes that create and patch orders (server/modules/orders.py), over    *)
(* one shared relational database (server/database.py).                    *)
(*                                                                         *)
(* The database is READ COMMITTED.  A runner p of sync_external_orders     *)
(* holds one transaction for its whole batch: pend[p] is its uncommitted   *)
(* write set, save[p] the write set at the last SAVEPOINT.  p reads the    *)
(* committed tables overlaid with pend[p]; a write to a row or to a unique *)
(* key another transaction has written waits until that transaction ends.  *)
(***************************************************************************)
EXTENDS Integers, FiniteSets, Sequences

CONSTANTS
    Runners,        \* executions of sync_external_orders that may overlap
    Clients,        \* in-flight PATCH /api/orders/{id}/status requests
    Refs,           \* ids of the orders of the external shop
    Content,        \* Content[ref]: the versions of the order, as a sequence
    SkuOf,          \* SkuOf[item ref]: the SKU synthesised for it
    ExternalEmail,  \* ExternalEmail[ref]: the "<id>@external.local" address
    SeedCustomers, SeedProducts,   \* rows present before the first sync
    ManualRefs,     \* ids generated for orders posted without one
    Emails, Statuses,
    CatalogKeys,    \* SKUs, names and ids a product is looked up by
    PatchStatuses,  \* statuses a PATCH may carry
    OrderIds,       \* surrogate keys of table orders
    None,           \* SQL NULL, and "no row"
    MaxPosts, MaxPatches, MaxFaults   \* bounds on the environment

VARIABLES
    upstream,   \* upstream[ref]: version the shop publishes, 0 if none yet
    orders, customers, products, items, audit,   \* the committed tables
    pc, batch, cache, pend, save, cust, loaded, oid, todo,   \* the runners
    patch, replies, patches, faults

shopVars == <<upstream>>
tableVars == <<orders, customers, products, items, audit>>
runVars == <<pc, batch, cache, pend, save, cust, loaded, oid, todo>>
envVars == <<patch, replies, patches, faults>>
vars == <<upstream, orders, customers, products, items, audit, pc, batch, cache,
          pend, save, cust, loaded, oid, todo, patch, replies, patches, faults>>

Keys == Refs \cup ManualRefs

Line == [ref : CatalogKeys, name : CatalogKeys]
Payloads == [hasId : BOOLEAN, wellFormed : BOOLEAN, email : Emails \cup {None},
             status : Statuses, items : Seq(Line)]
Listed == {b \in [ref : Refs, ver : Nat] : b.ver \in 1..Len(Content[b.ref])}

OrderRow == [id : OrderIds, key : Keys, cust : Emails, status : Statuses,
             backlog : {"backlog", "current"}, ver : Nat, sync : {"local", "synced"}]
Product == [sku : CatalogKeys, keys : SUBSET CatalogKeys]
ItemRows == [order : OrderIds, by : Runners \cup {None}, ver : Nat, pos : Int,
             sku : CatalogKeys \cup {None}]
AuditRows == [key : Refs \cup {None}, action : {"created", "updated", "upsert", "skip"},
              status : {"success", "failed", "invalid"}, ver : Nat]
ReplyRecord == [ref : Refs \cup {None}, id : OrderIds \cup {None},
                result : {"created", "conflict", "unauthorized", "error"}]
WriteSet == [orders : SUBSET OrderRow, customers : SUBSET Emails,
             products : SUBSET Product, delItems : SUBSET ItemRows,
             insItems : SUBSET ItemRows, audit : SUBSET AuditRows]

ASSUME ConstantsAssumption ==
    /\ IsFiniteSet(Refs)
    /\ Content \in [Refs -> Seq(Payloads)]
    /\ SkuOf \in [CatalogKeys -> CatalogKeys]
    /\ ExternalEmail \in [Refs -> Emails]
    /\ SeedCustomers \subseteq Emails /\ SeedProducts \subseteq Product
    /\ PatchStatuses \subseteq Statuses /\ "pending" \in Statuses
    /\ None \notin Refs \cup ManualRefs \cup Emails \cup OrderRow \cup OrderIds
    /\ MaxPosts \in Nat /\ MaxPatches \in Nat /\ MaxFaults \in Nat

\* order_sync.BACKLOG_STATUSES, and the set update_order_status uses instead.
BACKLOG_STATUSES ==
    {"pending", "processing", "backlog", "queued", "awaiting_fulfillment"}
PatchBacklogStatuses == {"pending", "processing", "queued"}
Backlog(status, set) == IF status \in set THEN "backlog" ELSE "current"

-----------------------------------------------------------------------------
(* Transactions.                                                           *)

NoWrites == [orders |-> {}, customers |-> {}, products |-> {},
             delItems |-> {}, insItems |-> {}, audit |-> {}]

IdsOf(rows) == {r.id : r \in rows}
KeysOf(rows) == {r.key : r \in rows}
SkusOf(rows) == {r.sku : r \in rows}

\* Rows of a table with the rows of a write set in place of the old ones.
Overlay(rows, writes) == {r \in rows : r.id \notin IdsOf(writes)} \cup writes

\* What transaction p sees: the committed rows and its own writes.
VisibleOrders(p) == Overlay(orders, pend[p].orders)
VisibleCustomers(p) == customers \cup pend[p].customers
VisibleProducts(p) == products \cup pend[p].products
VisibleItems(p) == (items \ pend[p].delItems) \cup pend[p].insItems

UsedIds == IdsOf(orders) \cup UNION {IdsOf(pend[q].orders) : q \in Runners}
FreshIds == OrderIds \ UsedIds
NewId == CHOOSE i \in OrderIds : i \notin UsedIds

\* Mutant: the constraint is not declared.
NoUniqueSourceRef(p, key) == TRUE

\* UniqueConstraint("source_system", "source_order_id"): an INSERT is refused
\* when the transaction can see a row with the key.
UniqueSourceRef(p, key) == key \notin KeysOf(VisibleOrders(p))

\* UPDATE as the ORM emits it: only the columns whose new value differs from
\* the value loaded by the earlier SELECT; the others keep the row's current
\* value.  last_synced_at always differs, so a synced row is always written.
Dirty(current, old, new) == IF new = old THEN current ELSE new
DirtyUpdate(current, old, new) ==
    [current EXCEPT !.cust = Dirty(@, old.cust, new.cust),
                    !.status = Dirty(@, old.status, new.status),
                    !.backlog = Dirty(@, old.backlog, new.backlog),
                    !.ver = Dirty(@, old.ver, new.ver),
                    !.sync = Dirty(@, old.sync, new.sync)]

\* Runners whose open transaction holds what p's next write needs.
KeyHolders(p, key) == {q \in Runners \ {p} : key \in KeysOf(pend[q].orders)}
EmailHolders(p, email) == {q \in Runners \ {p} : email \in pend[q].customers}
SkuHolders(p, sku) == {q \in Runners \ {p} : sku \in SkusOf(pend[q].products)}

-----------------------------------------------------------------------------
(* The batch a runner works on.                                            *)

Raw(p) == Content[Head(batch[p]).ref][Head(batch[p]).ver]
Ref(p) == Head(batch[p]).ref

AuditRow(key, action, status, ver) ==
    [key |-> key, action |-> action, status |-> status, ver |-> ver]

\* _resolve_product looks an item up by its external reference.
Lookup(p, item) == {r \in cache[p] : item.ref \in r.keys}

\* Mutant: products are found by SKU only.
ProductBySku(item) == [sku |-> SkuOf[item.ref], keys |-> {SkuOf[item.ref]}]

\* Product(...) added when the lookup misses; the cache learns its SKU and its
\* name, and not the reference it was looked up by.
NewProduct(item) ==
    [sku |-> SkuOf[item.ref], keys |-> {SkuOf[item.ref], item.name}]

\* The e-mail address _resolve_customer inserts a customer with.
CustomerEmail(p) == IF Raw(p).email = None THEN ExternalEmail[Ref(p)] ELSE Raw(p).email

ItemRow(p, sku, pos) ==
    [order |-> oid[p], by |-> p, ver |-> Head(batch[p]).ver, pos |-> pos, sku |-> sku]

\* Whom p's current write waits for.
WaitsFor(p) ==
    CASE pc[p] = "newCustomer" -> EmailHolders(p, CustomerEmail(p))
      [] pc[p] = "write" -> KeyHolders(p, Ref(p))
      [] pc[p] = "items" /\ todo[p] # <<>> /\ Lookup(p, Head(todo[p])) = {} ->
            SkuHolders(p, SkuOf[Head(todo[p]).ref])
      [] OTHER -> {}

-----------------------------------------------------------------------------
Init ==
    /\ upstream = [r \in Refs |-> 0]
    /\ orders = {} /\ items = {} /\ audit = {}
    /\ customers = SeedCustomers /\ products = SeedProducts
    /\ pc = [p \in Runners |-> "idle"]
    /\ batch = [p \in Runners |-> <<>>]
    /\ cache = [p \in Runners |-> {}]
    /\ pend = [p \in Runners |-> NoWrites]
    /\ save = [p \in Runners |-> NoWrites]
    /\ cust = [p \in Runners |-> None]
    /\ loaded = [p \in Runners |-> None]
    /\ oid = [p \in Runners |-> None]
    /\ todo = [p \in Runners |-> <<>>]
    /\ patch = [c \in Clients |-> None]
    /\ replies = <<>> /\ patches = 0 /\ faults = 0

\* The external shop places an order or changes one.
Publish(r) ==
    /\ upstream[r] < Len(Content[r])
    /\ upstream' = [upstream EXCEPT ![r] = @ + 1]
    /\ UNCHANGED <<tableVars, runVars, envVars>>

\* The ways the shop may list its orders: every order once, in any order.
Listings ==
    LET S == {r \in Refs : upstream[r] > 0}
    IN {s \in [1..Cardinality(S) -> S] : \A i, j \in DOMAIN s : s[i] = s[j] => i = j}

\* Reset(p) ends p's execution: the session closes and what it has not
\* committed is rolled back.
Reset(p) ==
    /\ pc' = [pc EXCEPT ![p] = "idle"]
    /\ batch' = [batch EXCEPT ![p] = <<>>]
    /\ cache' = [cache EXCEPT ![p] = {}]
    /\ pend' = [pend EXCEPT ![p] = NoWrites]
    /\ save' = [save EXCEPT ![p] = NoWrites]
    /\ cust' = [cust EXCEPT ![p] = None]
    /\ loaded' = [loaded EXCEPT ![p] = None]
    /\ oid' = [oid EXCEPT ![p] = None]
    /\ todo' = [todo EXCEPT ![p] = <<>>]

\* _fetch_external_orders: one GET, a snapshot of the shop.
FetchExternalOrders(p) ==
    /\ pc[p] = "idle"
    /\ \E s \in Listings :
          batch' = [batch EXCEPT ![p] =
                       [i \in DOMAIN s |-> [ref |-> s[i], ver |-> upstream[s[i]]]]]
    /\ pc' = [pc EXCEPT ![p] = "fetched"]
    /\ UNCHANGED <<shopVars, tableVars, envVars, cache, pend, save, cust, loaded, oid, todo>>

\* The GET fails: the run reports "failed" and writes nothing.
FetchFails(p) ==
    /\ pc[p] = "idle" /\ faults < MaxFaults
    /\ faults' = faults + 1
    /\ UNCHANGED <<shopVars, tableVars, runVars, patch, replies, patches>>

\* The session opens and _product_lookup reads the whole catalogue once.
ProductLookup(p) ==
    /\ pc[p] = "fetched"
    /\ cache' = [cache EXCEPT ![p] = products]
    /\ pc' = [pc EXCEPT ![p] = "loop"]
    /\ UNCHANGED <<shopVars, tableVars, envVars, batch, pend, save, cust, loaded, oid, todo>>

\* Mutant: no savepoint around an order.
FailWithoutSavepoint(p) ==
    /\ pend' = [pend EXCEPT ![p].audit =
                    @ \cup {AuditRow(Ref(p), "upsert", "failed", Head(batch[p]).ver)}]
    /\ batch' = [batch EXCEPT ![p] = Tail(@)]
    /\ pc' = [pc EXCEPT ![p] = "loop"]
    /\ todo' = [todo EXCEPT ![p] = <<>>]
    /\ UNCHANGED <<shopVars, tableVars, envVars, cache, save, cust, loaded, oid>>

\* The savepoint failed: roll back to it, audit the failure, go on.  The
\* product cache keeps what was added to it.
FailOrder(p) ==
    /\ pend' = [pend EXCEPT ![p] = [save[p] EXCEPT !.audit =
                    @ \cup {AuditRow(Ref(p), "upsert", "failed", Head(batch[p]).ver)}]]
    /\ batch' = [batch EXCEPT ![p] = Tail(@)]
    /\ pc' = [pc EXCEPT ![p] = "loop"]
    /\ cust' = [cust EXCEPT ![p] = None]
    /\ loaded' = [loaded EXCEPT ![p] = None]
    /\ oid' = [oid EXCEPT ![p] = None]
    /\ todo' = [todo EXCEPT ![p] = <<>>]
    /\ save' = [save EXCEPT ![p] = NoWrites]
    /\ UNCHANGED <<shopVars, tableVars, envVars, cache>>

\* Head of the for loop: _normalize_external_order raises on a malformed
\* order, outside the try that guards the rest, and takes the batch with it.
NormalizeRaises(p) ==
    /\ pc[p] = "loop" /\ batch[p] # <<>> /\ ~Raw(p).wellFormed
    /\ Reset(p)
    /\ UNCHANGED <<shopVars, tableVars, envVars>>

\* An order without an id is audited and skipped.
SkipInvalid(p) ==
    /\ pc[p] = "loop" /\ batch[p] # <<>> /\ Raw(p).wellFormed /\ ~Raw(p).hasId
    /\ pend' = [pend EXCEPT ![p].audit = @ \cup {AuditRow(None, "skip", "invalid", 0)}]
    /\ batch' = [batch EXCEPT ![p] = Tail(@)]
    /\ UNCHANGED <<shopVars, tableVars, envVars, pc, cache, save, cust, loaded, oid, todo>>

\* begin_nested, and the SELECT of _resolve_customer (only with an e-mail).
ResolveCustomer(p) ==
    /\ pc[p] = "loop" /\ batch[p] # <<>> /\ Raw(p).wellFormed /\ Raw(p).hasId
    /\ save' = [save EXCEPT ![p] = pend[p]]
    /\ \/ /\ Raw(p).email # None /\ Raw(p).email \in VisibleCustomers(p)
          /\ cust' = [cust EXCEPT ![p] = Raw(p).email]
          /\ pc' = [pc EXCEPT ![p] = "select"]
       \/ /\ Raw(p).email = None \/ Raw(p).email \notin VisibleCustomers(p)
          /\ pc' = [pc EXCEPT ![p] = "newCustomer"]
          /\ UNCHANGED cust
    /\ UNCHANGED <<shopVars, tableVars, envVars, batch, cache, pend, loaded, oid, todo>>

\* INSERT of the customer _resolve_customer did not find.
InsertCustomer(p) ==
    /\ pc[p] = "newCustomer" /\ WaitsFor(p) = {}
    /\ CustomerEmail(p) \notin VisibleCustomers(p)
    /\ pend' = [pend EXCEPT ![p].customers = @ \cup {CustomerEmail(p)}]
    /\ cust' = [cust EXCEPT ![p] = CustomerEmail(p)]
    /\ pc' = [pc EXCEPT ![p] = "select"]
    /\ UNCHANGED <<shopVars, tableVars, envVars, batch, cache, save, loaded, oid, todo>>

\* ... refused by the unique constraint on customers.email.
InsertCustomerRefused(p) ==
    /\ pc[p] = "newCustomer" /\ WaitsFor(p) = {}
    /\ CustomerEmail(p) \in VisibleCustomers(p)
    /\ FailOrder(p)

\* SELECT of _upsert_order: the row it will update, or None to insert one.
SelectOrder(p) ==
    /\ pc[p] = "select"
    /\ loaded' = [loaded EXCEPT ![p] =
          IF Ref(p) \in KeysOf(VisibleOrders(p))
          THEN CHOOSE r \in VisibleOrders(p) : r.key = Ref(p)
          ELSE None]
    /\ pc' = [pc EXCEPT ![p] = "write"]
    /\ UNCHANGED <<shopVars, tableVars, envVars, batch, cache, pend, save, cust, oid, todo>>

\* The columns _upsert_order gives an order.
SyncedColumns(p, id) ==
    [id |-> id, key |-> Ref(p), cust |-> cust[p], status |-> Raw(p).status,
     backlog |-> Backlog(Raw(p).status, BACKLOG_STATUSES),
     ver |-> Head(batch[p]).ver, sync |-> "synced"]

\* Mutants: the items are not deleted; the order is not flushed, so that its id
\* is not known when its items are added.
StoreWithoutDelete(p, row) ==
    /\ pend' = [pend EXCEPT ![p].orders = Overlay(@, {row})]
    /\ oid' = [oid EXCEPT ![p] = row.id]
    /\ todo' = [todo EXCEPT ![p] = Raw(p).items]
    /\ pc' = [pc EXCEPT ![p] = "items"]
    /\ UNCHANGED <<shopVars, tableVars, envVars, batch, cache, save, cust, loaded>>
StoreWithoutFlush(p, row) ==
    /\ pend' = [pend EXCEPT ![p].orders = Overlay(@, {row})]
    /\ todo' = [todo EXCEPT ![p] = Raw(p).items]
    /\ pc' = [pc EXCEPT ![p] = "items"]
    /\ UNCHANGED <<shopVars, tableVars, envVars, batch, cache, save, cust, loaded, oid>>

\* The flush of _upsert_order, then the DELETE of _replace_order_items: both
\* write the row's own data, under the row lock the flush took.
StoreOrder(p, row) ==
    /\ pend' = [pend EXCEPT
          ![p].orders = Overlay(@, {row}),
          ![p].delItems = @ \cup {i \in items : i.order = row.id},
          ![p].insItems = {i \in @ : i.order # row.id}]
    /\ oid' = [oid EXCEPT ![p] = row.id]
    /\ todo' = [todo EXCEPT ![p] = Raw(p).items]
    /\ pc' = [pc EXCEPT ![p] = "items"]
    /\ UNCHANGED <<shopVars, tableVars, envVars, batch, cache, save, cust, loaded>>

InsertOrder(p) ==
    /\ pc[p] = "write" /\ loaded[p] = None /\ WaitsFor(p) = {}
    /\ UniqueSourceRef(p, Ref(p))
    /\ FreshIds # {}
    /\ StoreOrder(p, SyncedColumns(p, NewId))

\* ... refused: another transaction committed the key after our SELECT.
InsertOrderRefused(p) ==
    /\ pc[p] = "write" /\ loaded[p] = None /\ WaitsFor(p) = {}
    /\ ~UniqueSourceRef(p, Ref(p))
    /\ FailOrder(p)

UpdateOrder(p) ==
    /\ pc[p] = "write" /\ loaded[p] # None /\ WaitsFor(p) = {}
    /\ \E current \in VisibleOrders(p) :
          /\ current.id = loaded[p].id
          /\ StoreOrder(p, DirtyUpdate(current, loaded[p], SyncedColumns(p, current.id)))

\* _resolve_product hits the cache; the OrderItem row is added.
AddItem(p) ==
    /\ pc[p] = "items" /\ todo[p] # <<>>
    /\ \E r \in Lookup(p, Head(todo[p])) :
          /\ r.sku \in SkusOf(VisibleProducts(p))
          /\ pend' = [pend EXCEPT ![p].insItems = @ \cup
                {ItemRow(p, r.sku, Len(Raw(p).items) - Len(todo[p]) + 1)}]
    /\ todo' = [todo EXCEPT ![p] = Tail(@)]
    /\ UNCHANGED <<shopVars, tableVars, envVars, pc, batch, cache, save, cust, loaded, oid>>

\* ... but the cached product was rolled back with an earlier savepoint: the
\* foreign key order_items.product_id refuses the row.
AddItemRefused(p) ==
    /\ pc[p] = "items" /\ todo[p] # <<>>
    /\ \E r \in Lookup(p, Head(todo[p])) : r.sku \notin SkusOf(VisibleProducts(p))
    /\ FailOrder(p)

\* The lookup misses: _resolve_product inserts a product and caches it.
AddProductAndItem(p) ==
    LET r == NewProduct(Head(todo[p]))
    IN  /\ pc[p] = "items" /\ todo[p] # <<>> /\ Lookup(p, Head(todo[p])) = {}
        /\ WaitsFor(p) = {}
        /\ r.sku \notin SkusOf(VisibleProducts(p))
        /\ pend' = [pend EXCEPT
              ![p].products = @ \cup {r},
              ![p].insItems = @ \cup {ItemRow(p, r.sku, Len(Raw(p).items) - Len(todo[p]) + 1)}]
        /\ cache' = [cache EXCEPT ![p] =
              {[c EXCEPT !.keys = @ \ r.keys] : c \in @} \cup {r}]
        /\ todo' = [todo EXCEPT ![p] = Tail(@)]
        /\ UNCHANGED <<shopVars, tableVars, envVars, pc, batch, save, cust, loaded, oid>>

\* ... refused by the unique constraint on products.sku.
AddProductRefused(p) ==
    /\ pc[p] = "items" /\ todo[p] # <<>> /\ Lookup(p, Head(todo[p])) = {}
    /\ WaitsFor(p) = {}
    /\ SkuOf[Head(todo[p]).ref] \in SkusOf(VisibleProducts(p))
    /\ FailOrder(p)

\* Mutant: the audit row says "created" of every order.
FinishAsCreated(p) ==
    /\ pc[p] = "items" /\ todo[p] = <<>>
    /\ pend' = [pend EXCEPT ![p].audit = @ \cup
          {AuditRow(Ref(p), "created", "success", Head(batch[p]).ver)}]
    /\ batch' = [batch EXCEPT ![p] = Tail(@)]
    /\ pc' = [pc EXCEPT ![p] = "loop"]
    /\ save' = [save EXCEPT ![p] = NoWrites]
    /\ loaded' = [loaded EXCEPT ![p] = None]
    /\ UNCHANGED <<shopVars, tableVars, envVars, cache, cust, oid, todo>>

\* The audit row, and the release of the savepoint.
FinishOrder(p) ==
    /\ pc[p] = "items" /\ todo[p] = <<>>
    /\ pend' = [pend EXCEPT ![p].audit = @ \cup
          {AuditRow(Ref(p), IF loaded[p] = None THEN "created" ELSE "updated",
                    "success", Head(batch[p]).ver)}]
    /\ batch' = [batch EXCEPT ![p] = Tail(@)]
    /\ pc' = [pc EXCEPT ![p] = "loop"]
    /\ save' = [save EXCEPT ![p] = NoWrites]
    /\ cust' = [cust EXCEPT ![p] = None]
    /\ loaded' = [loaded EXCEPT ![p] = None]
    /\ oid' = [oid EXCEPT ![p] = None]
    /\ UNCHANGED <<shopVars, tableVars, envVars, cache, todo>>

\* Mutant: the batch's orders replace the table.
CommitReplaces(p) ==
    /\ pc[p] = "loop" /\ batch[p] = <<>>
    /\ orders' = pend[p].orders
    /\ customers' = VisibleCustomers(p) /\ products' = VisibleProducts(p)
    /\ items' = VisibleItems(p) /\ audit' = audit \cup pend[p].audit
    /\ Reset(p)
    /\ UNCHANGED <<shopVars, envVars>>

\* The commit that ends the batch.
Commit(p) ==
    /\ pc[p] = "loop" /\ batch[p] = <<>>
    /\ orders' = Overlay(orders, pend[p].orders)
    /\ customers' = VisibleCustomers(p)
    /\ products' = VisibleProducts(p)
    /\ items' = VisibleItems(p)
    /\ audit' = audit \cup pend[p].audit
    /\ Reset(p)
    /\ UNCHANGED <<shopVars, envVars>>

\* The process dies, or lifespan cancels the task, while a run is under way.
Crash(p) ==
    /\ pc[p] # "idle" /\ faults < MaxFaults
    /\ faults' = faults + 1
    /\ Reset(p)
    /\ UNCHANGED <<shopVars, tableVars, patch, replies, patches>>

\* The database breaks a cycle of waiting transactions: the statement of one
\* of them fails.
DeadlockVictim(p) ==
    /\ \E S \in SUBSET Runners : p \in S /\ \A q \in S : WaitsFor(q) \cap S # {}
    /\ FailOrder(p)

-----------------------------------------------------------------------------
(* server/modules/orders.py                                                *)

PostedRow(id, key, email) ==
    [id |-> id, key |-> key, cust |-> email, status |-> "pending",
     backlog |-> "backlog", ver |-> 0, sync |-> "local"]

Reply(ref, result, id) ==
    replies' = Append(replies, [ref |-> ref, result |-> result, id |-> id])

\* create_order refuses a request without the internal key, with an unknown
\* customer or with a quantity that is not positive.
CreateOrderRejected(ref) ==
    /\ Len(replies) < MaxPosts
    /\ \E result \in {"unauthorized", "error"} : Reply(ref, result, None)
    /\ UNCHANGED <<shopVars, tableVars, runVars, patch, patches, faults>>

\* The key create_order stores: the caller's, or a generated one.
SourceRefs(ref) == IF ref = None THEN ManualRefs \ KeysOf(orders) ELSE {ref}

\* create_order inserts the order and its items in one transaction.  The
\* INSERT waits for a runner that holds the key.
CreateOrder(ref, email) ==
    /\ Len(replies) < MaxPosts
    /\ FreshIds # {}
    /\ \E key \in SourceRefs(ref), sku \in SkusOf(products) \cup {None} :
          /\ \A q \in Runners : key \notin KeysOf(pend[q].orders)
          /\ key \notin KeysOf(orders)
          /\ orders' = orders \cup {PostedRow(NewId, key, email)}
          /\ items' = items \cup
                {[order |-> NewId, by |-> None, ver |-> 0, pos |-> 1, sku |-> sku]}
    /\ Reply(ref, "created", NewId)
    /\ UNCHANGED <<shopVars, customers, products, audit, runVars, patch, patches, faults>>

\* ... refused by the unique constraint: the exception becomes a 500.
CreateOrderConflict(ref) ==
    /\ Len(replies) < MaxPosts
    /\ ref \in KeysOf(orders)
    /\ \A q \in Runners : ref \notin KeysOf(pend[q].orders)
    /\ Reply(ref, "conflict", None)
    /\ UNCHANGED <<shopVars, tableVars, runVars, patch, patches, faults>>

\* update_order_status reads the row ...
PatchRead(c, row, status) ==
    /\ patch[c] = None /\ patches < MaxPatches
    /\ patch' = [patch EXCEPT ![c] = [row |-> row, status |-> status]]
    /\ patches' = patches + 1
    /\ UNCHANGED <<shopVars, tableVars, runVars, replies, faults>>

\* ... and writes the two columns back, waiting for a runner that holds it.
PatchWrite(c) ==
    LET old == patch[c].row
        new == [old EXCEPT !.status = patch[c].status,
                           !.backlog = Backlog(patch[c].status, PatchBacklogStatuses)]
    IN  /\ patch[c] # None
        /\ new = old \/ \A q \in Runners : old.key \notin KeysOf(pend[q].orders)
        /\ orders' = {IF r.id = old.id THEN DirtyUpdate(r, old, new) ELSE r : r \in orders}
        /\ patch' = [patch EXCEPT ![c] = None]
        /\ UNCHANGED <<shopVars, customers, products, items, audit, runVars,
                       replies, patches, faults>>

-----------------------------------------------------------------------------
RunnerStep(p) ==
    \/ FetchExternalOrders(p) \/ ProductLookup(p)
    \/ NormalizeRaises(p) \/ SkipInvalid(p)
    \/ ResolveCustomer(p) \/ InsertCustomer(p) \/ InsertCustomerRefused(p)
    \/ SelectOrder(p) \/ InsertOrder(p) \/ InsertOrderRefused(p) \/ UpdateOrder(p)
    \/ AddItem(p) \/ AddItemRefused(p) \/ AddProductAndItem(p) \/ AddProductRefused(p)
    \/ FinishOrder(p) \/ Commit(p)
    \/ DeadlockVictim(p)

Next ==
    \/ \E p \in Runners : RunnerStep(p) \/ FetchFails(p) \/ Crash(p)
    \/ \E r \in Refs : Publish(r)
    \/ \E r \in Refs \cup {None} : CreateOrderRejected(r) \/ CreateOrderConflict(r)
    \/ \E r \in Refs \cup {None}, e \in customers : CreateOrder(r, e)
    \/ \E c \in Clients, row \in orders, s \in PatchStatuses : PatchRead(c, row, s)
    \/ \E c \in Clients : PatchWrite(c)

Spec == Init /\ [][Next]_vars

\* Every replica keeps running its loop and the database keeps answering; a
\* PATCH that was read is written.  Nothing obliges the shop or the clients.
Fairness ==
    /\ \A p \in Runners : SF_vars(RunnerStep(p))
    /\ \A c \in Clients : WF_vars(PatchWrite(c))

FairSpec == Spec /\ Fairness

-----------------------------------------------------------------------------
(* Properties.                                                             *)

\* Where a run stands: past the head of the loop it has an order in hand, from
\* the SELECT on a customer, and with the order stored its id.
FlowOK ==
    \A p \in Runners :
       /\ pc[p] \in {"newCustomer", "select", "write", "items"} => batch[p] # <<>>
       /\ pc[p] \in {"select", "write", "items"} => cust[p] \in Emails
       /\ pc[p] = "items" => oid[p] \in OrderIds

\* Every variable has its type.
TypeOK ==
    /\ upstream \in [Refs -> Nat] /\ \A r \in Refs : upstream[r] <= Len(Content[r])
    /\ orders \subseteq OrderRow /\ customers \subseteq Emails
    /\ products \subseteq Product /\ items \subseteq ItemRows /\ audit \subseteq AuditRows
    /\ pc \in [Runners -> {"idle", "fetched", "loop", "newCustomer", "select", "write", "items"}]
    /\ batch \in [Runners -> Seq(Listed)] /\ cache \in [Runners -> SUBSET Product]
    /\ pend \in [Runners -> WriteSet] /\ save \in [Runners -> WriteSet]
    /\ cust \in [Runners -> Emails \cup {None}] /\ oid \in [Runners -> OrderIds \cup {None}]
    /\ loaded \in [Runners -> OrderRow \cup {None}] /\ todo \in [Runners -> Seq(Line)]
    /\ patch \in [Clients -> [row : OrderRow, status : Statuses] \cup {None}]
    /\ replies \in Seq(ReplyRecord)
    /\ patches \in Nat /\ faults \in Nat
    /\ FlowOK

\* uq_orders_source_ref: however syncs of several replicas, posts and patches
\* interleave, at most one order stands for an order of the source system.
OneOrderPerSourceRef == \A a, b \in orders : a.key = b.key => a = b

ItemsOf(o) == {i \in items : i.order = o.id}

\* The item rows of one version of an order, as one writer stores them.
CompleteItems(rows, o) ==
    /\ \A i, j \in rows : i.by = j.by /\ i.ver = j.ver /\ (i.pos = j.pos => i = j)
    /\ \A i \in rows : i.by # None =>
          {j.pos : j \in rows} = DOMAIN Content[o.key][i.ver].items

\* _replace_order_items: the committed items of an order are always the whole
\* item list of one version, written by one run: two overlapping runs never
\* leave both lists, or half of one.
ItemsAreOneVersion == \A o \in orders : CompleteItems(ItemsOf(o), o)

\* As long as runs do not overlap, the items belong to the version the order
\* row describes, although each is written by a statement of its own.
ItemsMatchOrder ==
    \A o \in orders : \A i \in ItemsOf(o) : i.ver = o.ver

\* order_sync_audit: what a synced row holds was audited as a success, an
\* audited success left a row, and an order was created once.
AuditMatchesOrders ==
    /\ \A o \in orders : o.ver > 0 =>
          \E a \in audit : a.key = o.key /\ a.status = "success" /\ a.ver = o.ver
    /\ \A a \in audit : a.status = "success" =>
          \E o \in orders : o.key = a.key /\ o.sync = "synced"
    /\ \A a, b \in audit :
          a.key = b.key /\ a.action = "created" /\ b.action = "created" => a = b

\* A begin_nested block that failed leaves nothing behind: a commit changes
\* neither the row nor the items of an order whose upsert it audits as failed.
FailedUpsertLeavesNoTrace ==
    [][\A p \in Runners : Commit(p) =>
          \A a \in pend[p].audit : a.status = "failed" =>
             /\ {o \in orders' : o.key = a.key} = {o \in orders : o.key = a.key}
             /\ {i \in items' : \E o \in orders' : i.order = o.id /\ o.key = a.key}
                  = {i \in items : \E o \in orders : i.order = o.id /\ o.key = a.key}]_vars

\* The order table implements the ledger of OrderLedger: through every commit,
\* rollback, post and patch, an order once visible stays, with its surrogate
\* id and its source key, and stays the only one with them.
Ledger == INSTANCE OrderLedger WITH book <- orders
IsLedger == Ledger!Spec

\* Order r is stored as the shop publishes it.
InSync(r) ==
    \E o \in orders :
       /\ o.key = r /\ o.ver = upstream[r]
       /\ o.status = Content[r][upstream[r]].status
       /\ CompleteItems(ItemsOf(o), o) /\ \A i \in ItemsOf(o) : i.ver = o.ver

\* sync_external_orders upserts the external orders: once the shop stops
\* changing, every order it publishes ends up, and stays, stored as published.
EventuallyInSync == <>[](\A r \in Refs : upstream[r] > 0 => InSync(r))

\* Orders that _normalize_external_order takes in every version.
GoodRefs ==
    {r \in Refs : \A v \in DOMAIN Content[r] : Content[r][v].hasId /\ Content[r][v].wellFormed}

\* The same for the good orders alone, whatever is listed beside them: an order
\* that cannot be converted never keeps the others out.
GoodOrdersInSync == <>[](\A r \in GoodRefs : upstream[r] > 0 => InSync(r))

\* POST /api/orders with the source id of an order that an earlier POST
\* created is answered with that order.
RetriesDeduplicate ==
    \A i, j \in DOMAIN replies :
       LET a == replies[i]
           b == replies[j]
       IN  i < j /\ a.ref = b.ref /\ a.ref # None /\ a.result = "created"
              /\ b.result \notin {"unauthorized", "error"}
           => b.result = "created" /\ b.id = a.id

-----------------------------------------------------------------------------
(* The inductive invariant behind OneOrderPerSourceRef and IsLedger.       *)

\* Two sets of rows agree on which row is which.
Compatible(S, W) == \A a \in S, b \in W : a.id = b.id <=> a.key = b.key

\* Locks: two open transactions never hold the same row or key.
Disjoint(V, W) == \A a \in V, b \in W : a.id # b.id /\ a.key # b.key

\* Committed rows, the write set of each transaction and its savepoint agree
\* on ids and keys; a row selected for update is still visible under its key.
KeyInv ==
    /\ Ledger!Distinct(orders)
    /\ \A p \in Runners :
          /\ Ledger!Distinct(pend[p].orders) /\ Ledger!Distinct(save[p].orders)
          /\ Compatible(orders, pend[p].orders)
          /\ Ledger!Kept(save[p].orders, pend[p].orders)
          /\ \A q \in Runners \ {p} : Disjoint(pend[p].orders, pend[q].orders)
          /\ pc[p] = "write" /\ loaded[p] # None =>
                loaded[p].key = Ref(p) /\ Ledger!Kept({loaded[p]}, VisibleOrders(p))

=============================================================================
