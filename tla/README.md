# Verification of the Enterprise CRM Portal

TLA+ models of the CRM service in `src/server/`, the TLC configurations that
check them on small instances, and TLAPS proofs of the properties that matter
most for every instance.  `PROJECT.json` maps each definition to the source
lines it models.

## 1. The system

The portal is a FastAPI application, run as several replicas (OKE pods) over
one relational database it shares with an external shop.  Each replica has an
asyncio event loop, a small thread pool for session lookups, and module-level
dictionaries as caches.  There is no coordination between replicas other than
the database.

| Component | State | Operations | Interacts with | What is hard |
|---|---|---|---|---|
| Order synchronisation (`order_sync.py`, loop in `main.py`) | one open transaction, a product cache and a batch per run; tables `orders`, `order_items`, `customers`, `products`, `order_sync_audit` | fetch, resolve customer, upsert order, replace items, resolve product, audit, commit | shop (GET), database, `POST /api/orders/sync` | overlapping runs of replicas, stale snapshots, savepoints, lock waits and deadlocks, crashes |
| Order routes (`modules/orders.py`) | the same tables | create, change status, trigger a sync | shop (retries), order sync | read-then-write, unique key races, retries |
| Session gate (`middleware/session_gate.py`) | semaphore, executor queue and threads per replica | admit, look up, time out, answer | session store | two timeouts against late results, hung connections |
| Session store (`modules/auth.py`) | `user_sessions`, `_session_cache` per replica | login, logout, lookup, SSO callback | session gate, accounts | stale caches, failures that look like "no session" |
| Accounts and roles (`modules/auth.py`, `admin.py`, `_authz.py`) | `users`, `user_sessions`, the signed SSO cookie, `_jwks_cache` and `_login_attempts` per process | password login behind a limiter, register, SSO sign-in with provisioning, role change, logout | identity provider, session store, drone shop (same `users`) | check-then-act around awaits, key rotation, stale role copies |
| Chaos scenarios (`chaos/`) | rows of `chaos_state` | apply, clear, read with expiry | database | concurrent delete-and-insert, swallowed failures |
| Simulation (`modules/simulation.py`, `middleware/chaos.py`) | `_sim_state` per process | timed outages, error injection, generators of orders and customers | connection pool, every route | overlapping timers on one flag, nested sessions |
| Catalogue and shops (`modules/products.py`, `shops.py`, `shop_catalog_sync.py`) | `products`, `shops` | create, update, delete, full sync | drone shop (POST), order sync | a push after the commit: lost, overtaken, not what was written |
| Bootstrap (`bootstrap.py`, `lifespan` in `main.py`) | the schema and all tables | create schema, seed or reconcile | database, drone shop, platform | replicas that start together, crashes half-way |
| CRM records (customers, tickets, invoices, shipping, campaigns, reports; `customer_enrichment.py`) | one table each, a Redis cache | insert, set a status, look a customer up | Redis, database | look-ups that store what is stale by then |
| Log dispatch (`observability/logging_sdk.py`) | queue and worker thread | push, hand over | OCI Logging, Splunk | the worker dying |
| Integrations, API keys, files, dashboards, analytics, configuration, headers, tracing, metrics | none that steps of others race with | read, forward, render | drone shop, database | nothing |

Correctness, component by component: **order sync** – one order per source
order, whole item lists, a truthful audit, a failed order leaves no trace,
everything published is stored in the end; **order routes** – retries
deduplicate, orders are not lost; **session gate** – slots are exact, work is
bounded, every request is answered; **session store** – an outage logs nobody
out, a logout takes effect; **accounts** – one account per person whatever
races, a sign-in makes a session for the right person in the right browser,
roles in sessions are honest copies, the limiter overshoots by a bounded amount
and reopens; **chaos** – one scenario unless requests overlapped, and chaos
ends; **simulation** – timed outages end, batches are whole and answered;
**catalogue** – the shop mirrors the products that were ever pushed whenever
nothing disturbed the pushes; **bootstrap** – one seed, an administrator, and
every replica starts; **records** – staleness is bounded; **log dispatch** –
records are handed over once and in order, and the queue drains (it does not).

## 2. Modules

| Module | Models | Built on |
|---|---|---|
| `OrderLedger` | abstract specification: what readers of `orders` may rely on | – |
| `OrderSync` | order synchronisation and order routes over the database | `OrderLedger` (refinement) |
| `OrderSync_proofs` | theorems: types, keys, the ledger | `OrderSync` |
| `OrderItems_proofs` | theorems: the items of an order | `OrderSync_proofs` |
| `OrderAudit_proofs` | theorems: the audit trail and failed upserts | `OrderItems_proofs` |
| `MCOrderSync` | instances for TLC: contents of the shop | `OrderSync` |
| `SessionGate` | session gate, session cache and store | – |
| `SessionGate_proofs` | theorems about `SessionGate` | `SessionGate` |
| `MCSessionGate` | symmetry for TLC | `SessionGate` |
| `Accounts` | sign-in, provisioning, roles and sessions | – |
| `LoginLimiter` | the limiter in front of `login` | – |
| `Catalog` | products, shops and the pushes to the drone shop | – |
| `Records` | customers, the enrichment cache and the other CRM tables | – |
| `LogDispatch` | log queue and worker | – |
| `SimSwitch` | the disconnect switch and its timed outages | – |
| `Generators` | order generators over the connection pool | – |
| `ChaosState` | apply, clear and read of `chaos_state` | – |
| `Bootstrap` | the start of replicas | – |
| `MCBackOffice` | `Accounts`, `Catalog` and `Records` for TLC | those |
| `MCServices` | the six services for TLC | those |
| `Accounts_proofs`, `Bootstrap_proofs` | theorems | the module named |
| `Services_proofs` | theorems | `LoginLimiter`, `LogDispatch`, `ChaosState`, `Generators` |
| `BackOffice_proofs` | theorems | `Catalog`, `Records` |

A few definitions marked *Mutant* in the modules are faulty variants of the
definition after them.  They are used by no specification; they show that each
property can fail (`PROJECT.json`, "mutants").

### OrderSync

Tables are sets of rows; an order keeps the columns the properties tell apart:
surrogate id, source key, customer, status, backlog flag, sync status, and, in
place of amounts and payload, the *version* of the shop's order it was written
from.  `upstream[ref]` is the version the shop publishes, `Content[ref][ver]`
its payload.

A runner `p` is one execution of `sync_external_orders`: the background loop of
a replica, or a `POST /api/orders/sync`; several may overlap.  It holds one
transaction for the whole batch.  `pend[p]` is its uncommitted write set,
`save[p]` the write set at the current SAVEPOINT (`begin_nested`), `cache[p]`
the product lookup.  A runner reads the committed tables overlaid with its own
writes (READ COMMITTED); a write to a row, or to a unique key, that another
open transaction holds waits for it (`WaitsFor`); a cycle of waits is broken by
`DeadlockVictim`.  One action stands for one statement against the database
with the code up to the next one:

| Code | Actions |
|---|---|
| `_fetch_external_orders` | `FetchExternalOrders`, `FetchFails` |
| `_product_lookup` | `ProductLookup` |
| `_normalize_external_order` | `NormalizeRaises`, `SkipInvalid` |
| `_resolve_customer` | `ResolveCustomer`, `InsertCustomer`, `InsertCustomerRefused` |
| `_upsert_order` | `SelectOrder`, `InsertOrder`, `InsertOrderRefused`, `UpdateOrder` |
| `_replace_order_items`, `_resolve_product` | `StoreOrder` (the DELETE), `AddItem`, `AddItemRefused`, `AddProductAndItem`, `AddProductRefused` |
| `_write_sync_audit`, end of savepoint | `FinishOrder`, `FailOrder` |
| `commit`, task cancellation, process death | `Commit`, `Crash` |
| `create_order` | `CreateOrder`, `CreateOrderConflict`, `CreateOrderRejected` |
| `update_order_status` | `PatchRead`, `PatchWrite` |

Two details decide outcomes and are kept.  The ORM writes only the columns
whose new value differs from the value it loaded (`DirtyUpdate`), so a writer
with a stale copy overwrites some columns and not others.  The product cache is
not rolled back with a savepoint, so a later order may refer to a product that
no longer exists (`AddItemRefused`).

### SessionGate

`free[rep]` is the semaphore `_auth_inflight`, `queue[rep]` the work queue of
`_auth_executor`, `thread[rep][w]` what thread `w` is doing, `cache[rep]`
`_session_cache` with the ticks an entry may still be used.  A request goes
`idle -> admit -> lookup -> answered`.  `LookupTimeout` is `asyncio.wait_for`
giving up: a queued item is cancelled, and stays in the queue as `None` until a
thread discards it, as `ThreadPoolExecutor` does; a running lookup cannot be
cancelled and goes on for nobody.  `get_current_user` is split at the SELECT,
because the row may be deleted between the SELECT and the write to the cache.
`Hang` and `HungFails` are a connection that stops answering and, perhaps, fails
much later; `Restart` is the pod being replaced.

### Accounts and LoginLimiter

A handler of `auth.py` is cut at its awaits.  `sso_callback` goes
`exchange -> find_key (-> fetch -> fetched) -> select -> provision -> retry ->
reread -> session`; its INSERT is held in `pend[h]` until `Reread` commits, and
an INSERT that meets another handler's pending key waits (`Locked`).  A failed
statement dooms the transaction on PostgreSQL and not on Oracle:
`AbortsOnError` is a constant.  An address is a base and whether it is written
in mixed case, because uniqueness sees the case and the lookup does not.  The
provider (external) publishes one key at a time and accepts a code once; the
user may open a redirect again, or in the other browser.  `fresh` in a session,
and in what a handler has read, is not in the code: it records that no role
change came since, and is what `RoleCopied` is about.

In `LoginLimiter` a handler keeps the *list* it found with `setdefault`.  When
a login succeeds, `pop` detaches that list, and handlers that hold it append to
what nobody reads (`attached`).

### Catalog

`edit[e]` is a handler between loading a product and writing it: the UPDATE
names the columns that differ from what was loaded (`Merge`), but what is
pushed is the product in memory; a request that asks for what was loaded writes
nothing and is pushed even if the row is gone.  Two sources of products push
nothing at all: the seeding of an empty database (`CatalogInit` begins with no
product or with the demo products `Seeds`) and the order sync, which inserts a
product for an unknown order item (`AutoCreateProduct`).  `silent` records their
ids until a push names them, and `ShopMirrorsProducts` leaves them out: the shop
does lack them.  `wire` holds pushes; they arrive in any order
or not at all.  `exact` and `clean` are history: `exact` becomes false when
something blurs the shop's copy (a lost push, two pushes under way, a row
changed under an edit, SKUs that differ in case only, which the payload puts in
upper case), and true again by an undisturbed full sync; `clean` never recovers,
because a full sync pushes what exists and so cannot withdraw what does not.

### Records

`lookup[l]` is `find_customer_by_email` between the cache's GET and its SET;
`draft[d]` is the simulation's create-customer between SELECT and INSERT.
The time since a lookup began is bounded by `MaxLookup`; without a bound on the
lookup there is none on staleness.

### The services

`LogDispatch`: `OciFails` ends the thread, as the `NameError` in the handler of
`_push_to_oci_logging` does.  `SimSwitch`: an outage is two assignments with a
sleep between, and the one to wake first clears the switch for all;
`configured` is history.  `Generators`: a
batch takes a pool connection with its first INSERT and keeps it, while
`_random_customer_id` and `_random_product` each want one of their own.
`ChaosState`: a transaction deletes the rows it sees, and waits for rows another
one has deleted.  `Bootstrap`: DDL commits at once, rows with the transaction;
a row is the set of its unique keys, and the rest of a start is a list of
statements (`plan`); an exception ends the process, the platform starts it
again.

## 3. Runs

All bounds are constants of the configurations.  `MaxFaults` bounds crashes,
failed fetches, failed or hung lookups and restarts; `MaxPosts` and
`MaxPatches` the requests to the order routes; `MaxQueue` the arrivals while
the executor's queue is long.

| Run | Shows | Bounds, and why they suffice |
|---|---|---|
| `order_race` | `TypeOK`, `OneOrderPerSourceRef`, `ItemsAreOneVersion`, `AuditMatchesOrders`, `IsLedger` | two overlapping runners, one order with two versions (other status, another item, a product new to the CRM), one POST, one PATCH, one fault: every pair of writers of a row meets |
| `order_batch` | `ItemsMatchOrder`, `FailedUpsertLeavesNoTrace` | one runner, three orders in any listing order: one fails after having written a customer, its row and a product, one then hits the rolled-back product in the cache, one lacks an id and is malformed later; one POST |
| `order_converge` | `EventuallyInSync` | two runners, two orders with a common new customer and product, one of them with two versions, any listing order, a PATCH, a fault: stale snapshots, lock waits, deadlocks and a lost batch.  `CONSTRAINT Modest`: the second version, the PATCH and the fault meet the first order alone, and the two orders meet without them; no step that fairness asks for leads out of it |
| `order_noemail` | *violated:* `EventuallyInSync` | one order without e-mail, two versions |
| `order_malformed` | *violated:* `GoodOrdersInSync` | one good and one malformed order; the property is about the good one alone |
| `order_retry` | *violated:* `RetriesDeduplicate` | two POSTs |
| `gate_safety` | `TypeOK`, `SemaphoreExact`, `OneLookupEach`, `LookupsBounded`, `NoForcedLogout` | one thread (two slots), three requests, so one must wait; two tokens; queue up to 4 (a capacity of cancelled entries besides live ones); one fault |
| `gate_liveness` | `EveryRequestAnswered`, `LogoutTakesEffect` | two replicas, two requests, one token, TTL 2, one fault |
| `backoffice` | `OneSsoAccount`, `RefusedWithReason`, `RotationHeals`, `SsoSessionGenuine`, `RoleCopied`; `ShopMirrorsProducts`, `ShopSellsNothingElse`; `StaleAtMostTtl`, `SpelledTwiceOnlyByRace`, `CompletionStamped` | see below |
| `services` | `LimiterOvershoot`, `LimiterReopens`; `LogInOrder`; `OutageEnds`; `OneScenarioUnlessRaced`, `ChaosEnds`; `SeededOnce`, `AdminWhenReady`, `EveryoneStarts`; `BatchWhole`, `GeneratorsEnd` | see below |
| `gate_admission` | *violated:* `AdmissionControl` | one thread, three requests, queue up to 5 |
| `log_drain` | *violated:* `RecordsDrain` | three records, one restart |

`ItemsMatchOrder` (items belong to the version of the row) is stated for runs
that do not overlap.  It does not hold otherwise: a run with an older snapshot
can write the old items under a row whose columns it believes unchanged.
`EventuallyInSync` shows that the next sync repairs it.

Both composed runs choose at the start which part of the system a behaviour
exercises (`part`, `service`).  The parts share no variable, so their
interleavings show nothing that each alone does not, and their product would be
out of TLC's reach; what they do share in the code, the tables of users,
customers and products, is inside the part that depends on it (foreign accounts
in `Bootstrap`, registrations in `Accounts`, deleted products in `Generators`,
order items in `Catalog`).

*backoffice.*  Accounts: two handlers, two browsers, two sign-ins, one person
whose display name and spelling of the address vary, somebody who registers the
prefixed name or the mixed-case address; two events (role change, rotation,
expiry, logout, registration, failed call) and one password login, so that an
administrator can act (one event while the administrator's session and two
sign-ins are there).  Two sign-ins suffice for every race in provisioning, two
events for a rotation during a stale fetch.  Catalogue: three changes of
products on one SKU in two spellings with two edits at once, or two changes with
two SKUs or with a shop (`Modest`; the product of all of these is too large):
load, change and overtaking push need three.  One demo product may be there at
the start, and items of unknown products may come at any time; at most two
pushes are under way. The editors are alike, so the second is taken only while
the first is at work (`InTurn`).  Records: two lookups of one address in two
spellings, two writes, TTL 2, lookups of at most 1, time up to 4: an entry can
be stored stale and outlive the change by its whole TTL.

*services.*  Limiter: limit 2, three handlers (one more than the limit), two
processes.  Log: three records, one restart.  Switches: two overlapping outages.
Chaos: two operators, three requests, times to live 1 and 2 within 4 ticks, so
that rows expire before, between and after requests. Bootstrap: two replicas,
any of three schemas, one kill, foreign rows at any time.  Generators: two
batches of two over a pool of two, the smallest in which batches wait for each
other.

### Fairness

*OrderSync:* strong fairness of each runner's step.  The background loop never
ends (`_orders_sync_loop` catches every exception), and a statement that waits
for a lock is granted it in turn, because the database queues waiters; weak
fairness would let a runner wait for ever while others take and release the
lock again and again.  Weak fairness of `PatchWrite`: a handler that read the
row goes on.  Nothing obliges the shop to publish, clients to post, or faults
to happen.

*SessionGate:* weak fairness of the clock, of the event loop's steps for each
request (the timeouts included) and of each thread that is not hung.  A hung
connection is not assumed ever to fail.

*Services:* weak fairness throughout, and only of what goes on by itself: time
(`LeaveWindow`, `PassTime`), the worker thread, the end of a sleep
(`EndOutage`), statements of requests under way, the pool's timeout, and the
platform that starts a replica again.  `ChaosEnds` holds with clears that always
fail, since nothing fair depends on them.  `RecordsDrain`, in its own run,
assumes that every exporter call returns, and that the process goes on.

### Findings

1. `order_noemail` – an order without a customer e-mail is created by the first
   sync with `<id>@external.local`; every later sync tries to insert the same
   customer, the unique constraint refuses it, and the order is never updated.
2. `order_malformed` – `_normalize_external_order` runs outside the per-order
   `try`, so one order it cannot convert keeps the whole batch from committing,
   on every run, and the good orders listed beside it are never stored.
3. `order_retry` – the documentation says that retries with the same ids
   deduplicate to the same CRM order; the second POST gets an error.
4. `gate_admission` – the comment promises a bound on lookups running *or
   queued*; a timeout frees the slot and leaves the cancelled work item in the
   executor's queue, so with the threads stuck the queue outgrows the capacity.
      What does hold is `LookupsBounded`: the lookups still to be executed stay
   within slots plus threads.
5. `log_drain` – `logging_sdk.py:160` names `logger`, which the module does not
   define: the first failed `put_logs` of a process ends its only worker
   (`OciFails`), and every later record stays in the queue, although the
   docstring of `_log_worker` promises to drain it and the comment above the
   line to report the failure once per minute.

Also met, and without a run of its own:

- a product referenced by a code that is neither its SKU nor its name is cached
  under its SKU and name only, so each sync that meets the code again creates or
  collides with the synthesised SKU;
- `require_role` reads `request.state.session`, which nothing under `server/`
  sets, so the chaos administration answers 403 unless a layer in front sets it
  (`SessionRoles`);
- the fault hook of `chaos/db_faults.py` is attached to an engine that `main.py`
  creates for tracing and runs no statement on, so a scenario injects nothing
  here; the DELETE that precedes an apply does not keep "only one active
  scenario" when two applies overlap (`OneScenarioUnlessRaced` says when);
- `_sim_state["db_disconnect"]` has no reader: `get_db` looks at
  `cfg.simulate_db_disconnect`; and the first of two overlapping outages to end
  ends both, so that a disconnect of "10s" may last 5;
- products that the order sync inserts stay out of the shop's catalogue until
  somebody edits them or pushes everything (`silent`);
- with an error rate of 1 `/api/auth/login` is answered with the injected error
  while `/api/simulate/reset` is exempt but needs a session: an operator who has
  none cannot end the injection;
- the enrichment cache folds the case of an address and the database lookup does
  not; a lookup under way stores its answer after an invalidation; a cached miss
  is answered `{}` where an uncached one is `None`;
- renaming a SKU leaves the old one on sale in the shop, and no full sync
  withdraws it (`clean`);
- a status update of a shipment or lead that does not exist is answered as done.

## 4. Proofs

All proofs are checked by TLAPS from the assumptions named in the modules
(`ConstantsAssumption`, `GateAssumption`, `AccountsAssumption`,
`LimiterAssumption`, `LogAssumption`, `ChaosAssumption`, `GenAssumption`,
`BootAssumption`, `CatalogAssumption`, `RecordsAssumption`: types
of the constants, finitely many orders, threads and handlers, at least one
thread, replica and process).  The bounds are arbitrary naturals, so the
theorems hold for any number of replicas, orders, versions, threads, requests,
accounts and faults.

| Theorem | States | Argument |
|---|---|---|
| `TypeCorrect` | `Spec => []TypeOK` (`OrderSync`) | inductive with `FlowOK`: past the head of the loop a run has an order in hand, then a customer, then an order id; without it `Head(batch[p])` and `oid[p]` have no type |
| `KeysAgree` | `Spec => []KeyInv` | see below |
| `UniqueOrders` | `Spec => []OneOrderPerSourceRef` | from `KeyInv` |
| `ImplementsLedger` | `Spec => IsLedger`: `OrderSync` refines `OrderLedger` | each step either leaves `orders` alone or keeps every entry and adds distinct ones, by `KeyInv` |
| `ItemsWhole` | `Spec => []ItemsAreOneVersion` | `ItemsInv`, below |
| `ItemsFollowOrder` | `Spec => []ItemsMatchOrder`, if there is one runner | `MatchInv`, below |
| `AuditIsTrue` | `Spec => []AuditMatchesOrders` | `AuditInv`, below |
| `FailuresLeaveNoTrace` | `Spec => FailedUpsertLeavesNoTrace`, an action property | `FailInv`, below |
| `GateTypeCorrect` | `Spec => []TypeOK` (`SessionGate`) | `TypeOK` is inductive: the semaphore is taken only when positive |
| `GateExact` | `Spec => [](OneLookupEach /\ SemaphoreExact)` | the conjunction `GateInv` is inductive: a slot can be counted only if each waiting request is known to have exactly one lookup |
| `GatePaired` | `Spec => []OneLookupEach` | from `GateExact` |
| `GateBounded` | `Spec => []LookupsBounded` | from `GateInv`: queued lookups are waiting requests, which are at most `Capacity` |
| `OutageIsNotLogout` | `Spec => []NoForcedLogout` | inductive with `LookupsGenuine`: a SELECT that missed still misses, because tokens are never handed out again |
| `AccountsUnique` | `Spec => []UniqueAccounts` (`Accounts`) | see below |
| `SsoProvisionsOnce` | `Spec => []OneSsoAccount` | rows provisioned by SSO have folded addresses, so equal addresses are equal keys; then from uniqueness |
| `SessionRolesCopied` | `Spec => []RoleCopied` | inductive with `RolesRead`: what handlers have read, and not yet put into a session, is an honest copy too |
| `SignInsGenuine` | `Spec => []SsoSessionGenuine` | `SignInInv`, below |
| `CacheHeals`, `RefusalsExplained` | `Spec => []RotationHeals`, `[]RefusedWithReason` | from `SignInInv` |
| `ShopShowsProducts`, `ShopSellsWhatExists` | `CatalogSpec => []ShopMirrorsProducts`, `[]ShopSellsNothingElse` | `CatalogInv`, below |
| `StalenessBounded` | `RecordsSpec => []StaleAtMostTtl` | `EntriesBounded`, below |
| `DuplicatesRaced` | `RecordsSpec => []SpelledTwiceOnlyByRace` | inductive with `DraftsLooked`: a request under way began before any insert it did not see had ended |
| `CompletionsDated` | `RecordsSpec => []CompletionStamped` | inductive with the statuses a record can have |
| `BatchesWhole` | `GenSpec => []BatchWhole` | `GenInv`: a batch under way has written exactly the orders above the number left, under a number no other batch has |
| `OvershootBounded` | `LimiterSpec => []LimiterOvershoot` | inductive: only a login let through while below the limit is in flight, and a failure turns one in flight into one counted |
| `RecordsInOrder` | `LogSpec => []LogInOrder` | inductive with the type invariant: the queue is the interval of the last pushed numbers |

| `ScenariosRaced` | `ChaosSpec => []OneScenarioUnlessRaced` | inductive with what a request under way knows: the rows it does not delete were committed after its DELETE began |
| `SeedsOnce`, `ReadyHasAdmin` | `BootSpec => []SeededOnce`, `[]AdminWhenReady` | `BootInv`, below |

Uniqueness of committed rows is not inductive: a commit publishes a write set
that was checked long before.  `KeyInv` says that committed rows, write sets
and savepoints are each distinct, that a write set agrees with the committed
rows on which id carries which key, that two open transactions never hold the
same id or key (the locks), that a rollback to a savepoint only forgets rows,
and that a row loaded for an UPDATE is still visible under its key.

The items of an order are deleted, inserted one by one and committed later, so
`ItemsAreOneVersion` is not inductive either.  `ItemsInv` says of a write set
and of its savepoint that they hold items only of orders they hold, that they
delete every committed item of those orders, and that all but the order under
way have their whole list; that order has the first `n` items of the version in
hand, where `n` is what `todo` has lost.  Nobody adds committed items to an
order another transaction holds, because ids are fresh or locked (`KeyInv`).

`AuditInv` ties the audits of a write set to its rows: each synced row has the
success of its version, here or committed (an UPDATE with a stale copy may keep
the version another run stored, and that one was audited); each success is of a
row held; a "created" is of a key the committed rows do not have.  It also
needs that a row loaded as synced stays synced, or an UPDATE that leaves out an
unchanged `sync` column could store a local row.

`FailInv` adds that a batch names each order once, so that an order which
failed is not upserted again, and that a savepoint holds no order still ahead,
so that the rollback forgets the failed one whole.

`MatchInv`, behind `ItemsFollowOrder`, says that the row an UPDATE is about to
write still has the version its SELECT saw.  Posts and patches keep that; the
commit of another run does not, hence the hypothesis that any two runners are
the same, which holds for one replica whose `POST /api/orders/sync` does not
overlap the loop.

Accounts need the same idea in a smaller form.  `AccountsInv` is `AccountsType`,
`StoreInv` and `RolesRead`; `StoreInv` says that committed and pending rows of
all handlers are together distinct in id, name and address, because an INSERT
that meets a pending key waits, and that ids are at most the last one given out.
`BootInv` adds to the types that uncommitted keys of replicas are disjoint from
each other and from committed ones (`HeldApart`), that a start past the lookup
either has the administrator's key, holds it, or still has its INSERT in the
plan, so that a seeding cannot commit past an administrator who is there
(`AdminOnTheWay`), and that a seeding that was committed left the
administrator's address taken (`SeedKnown`).

`SignInInv` follows a sign-in: a code is spent by one handler and belongs to at
most one session (`CodesApart`), the cookie of a browser names a flow of that
browser, and what each handler knows is true at every point it may stop:
a key set it fetched is no older than its token's key, a first refusal met a
taken address or name, a row it selected is of the person of its flow
(`Signed`).  `RotationHeals` needs the bound on the fetched key set, because the
fetch and the answer are separate steps between which the key may rotate.

`CatalogInv` says that, while nothing blurred the copy, each product is shown,
or came without a push (`silent`), or some push under way settles it, and that
no push under way says anything the products do not (`ExactInv`); and, while
clean, that what is on sale without a product will be withdrawn by a push under
way (`CleanInv`).  The push names the product in memory, not the row written, so
the proof of each change shows that the two agree unless the row changed under
the edit.  `EntriesBounded` says that an entry, or an answer a lookup is about
to store, that is not what the table answers was read before the last change, by
a lookup begun at most `MaxLookup` before.

Each of these invariants was model-checked on the instances of section 3 before
it was proved (`MatchInv` with patches and a crash besides).

Only model-checked: the liveness properties `EventuallyInSync`,
`EveryRequestAnswered`, `LogoutTakesEffect`, `LimiterReopens`, `OutageEnds`,
`ChaosEnds`, `EveryoneStarts` and `GeneratorsEnd`.
They rest on fairness and `ENABLED`, about which the installed provers cannot
reason.  Every safety property of a passing run is the subject of a theorem.
What `Content`, `SkuOf` and `ExternalEmail` contain is arbitrary in the
theorems; the runs fix it.

## 5. Not modelled

Amounts, prices, stock and descriptions (columns that no property tells apart);
the fetch `limit` of 200 (it is assumed to cover the shop's orders); sizes of
the pools other than the one of `Generators`; spans, logs' contents and metrics;
HTML rendering; read-only routes.

- `integrations.py` and the proxied shop simulations forward requests and keep
  nothing; the dashboards and analytics only read.
- `api_keys.py` keeps a dictionary in one process that nothing else uses.
- `files.py`, and execution, import and export of reports, are I/O on data given
  with the request.
- The OIDC discovery cache: the document names the same endpoints for ever.
- The shop's side of `products` and `users`: external, only its inserts that
  bootstrap can meet.
- Simulation routes that sleep, log or read and change nothing, and the error
  injection of `middleware/chaos.py`, which answers a request before any handler
  runs.  The session gate in front of `/api/simulate` is not composed with
  `SimSwitch`: its requests are those that got through.

## 6. Plan

1. The lemmas that liveness rests on and that need no fairness: what a step of
   each service leaves alone, and the measures that decrease (orders left in a
   batch, items left of an order, statements left of a start).
2. `Accounts` and `Bootstrap` share the table of users; an abstract
   specification of that table, implemented by both, as `OrderLedger` is by
   `OrderSync`.
3. `ItemsFollowOrder` under the weaker hypothesis that runs of one order do not
   overlap.
