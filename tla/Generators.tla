----------------------------- MODULE Generators -----------------------------
(***************************************************************************)
(* The order generators of server/modules/simulation.py: generate_orders,  *)
(* generate_backlog and high_value_order, with the connection pool they    *)
(* draw on.  A batch is one transaction, but every customer and product of *)
(* it is picked in a session of its own: from its second order on, a batch *)
(* holds one connection and waits for another.                             *)
(***************************************************************************)
EXTENDS Integers, FiniteSets

CONSTANTS
    Gens,            \* generator requests under way at once
    PoolSize,        \* pool_size + max_overflow
    BatchSize,       \* count of a request
    SimProducts,     \* products that may exist
    SimCustomers,    \* customers that may exist
    MaxBatches       \* bound: requests

ASSUME GenAssumption ==
    PoolSize \in Nat \ {0} /\ BatchSize \in Nat \ {0} /\ MaxBatches \in Nat

VARIABLES
    catalog,         \* products that exist
    people,          \* customers that exist
    generated,       \* committed orders with their item: batch, number, product
    gen,             \* gen[g]: the request under way
    batches          \* requests so far

genVars == <<catalog, people, generated, gen, batches>>

NoBatch == [at |-> "idle", kind |-> "orders", batch |-> 0, left |-> 0, given |-> FALSE,
            found |-> FALSE, product |-> CHOOSE p \in SimProducts : TRUE, wrote |-> {}]

GenInit ==
    /\ catalog \in SUBSET SimProducts /\ people \in SUBSET SimCustomers
    /\ generated = {} /\ batches = 0
    /\ gen = [g \in Gens |-> NoBatch]

\* A session takes its connection with its first statement and keeps it.
Holds(g) == gen[g].wrote # {}
FreeConnections == PoolSize - Cardinality({g \in Gens : Holds(g)})

\* The request goes on as b, or ends: its session is closed and rolled back.
GenGoto(g, b) == gen' = [gen EXCEPT ![g] = b]
GiveUp(g) == GenGoto(g, NoBatch)

\* A request begins: its kind, whether it names a customer, how many orders.
Generate(g, kind, given, count) ==
    /\ gen[g].at = "idle" /\ batches < MaxBatches
    /\ batches' = batches + 1
    /\ GenGoto(g, [NoBatch EXCEPT !.at = "customer", !.kind = kind, !.batch = batches + 1,
                                  !.given = given, !.left = count])
    /\ UNCHANGED <<catalog, people, generated>>

GenerateOrders(g, given) == Generate(g, "orders", given, BatchSize)
GenerateBacklog(g) == Generate(g, "backlog", FALSE, BatchSize)
HighValueOrder(g, given) == Generate(g, "high_value", given, 1)

\* _random_customer_id, unless the request names a customer.  Without customers
\* the request ends; a backlog order is skipped once the product is read too.
PickCustomer(g) ==
    LET b == gen[g]
    IN  /\ b.at = "customer" /\ (b.given \/ FreeConnections > 0)
        /\ IF b.given \/ people # {} \/ b.kind = "backlog"
           THEN GenGoto(g, [b EXCEPT !.at = "product", !.found = b.given \/ people # {}])
           ELSE GiveUp(g)
        /\ UNCHANGED <<catalog, people, generated, batches>>

\* The order after this one, or the commit.
NextOrder(b) == [b EXCEPT !.left = @ - 1, !.at = IF b.left = 1 THEN "commit" ELSE "customer"]

\* _random_product
PickProduct(g) ==
    LET b == gen[g]
    IN  /\ b.at = "product" /\ FreeConnections > 0
        /\ \/ /\ b.found
              /\ \E p \in catalog : GenGoto(g, [b EXCEPT !.at = "write", !.product = p])
           \/ ~b.found /\ GenGoto(g, NextOrder(b))
           \/ /\ b.found /\ catalog = {}
              /\ IF b.kind = "backlog" THEN GenGoto(g, NextOrder(b)) ELSE GiveUp(g)
        /\ UNCHANGED <<catalog, people, generated, batches>>

\* INSERT of the order and of its item.  The product may be gone by now, and the
\* customer or product a request names may not exist: a foreign key refuses it.
WriteOrder(g) ==
    LET b == gen[g]
    IN  /\ b.at = "write" /\ (Holds(g) \/ FreeConnections > 0)
        /\ \/ /\ b.product \in catalog
              /\ GenGoto(g, [NextOrder(b) EXCEPT !.wrote = @ \cup
                                {[batch |-> b.batch, kind |-> b.kind, n |-> b.left, product |-> b.product]}])
           \/ (b.product \notin catalog \/ b.kind = "orders" \/ b.given) /\ GiveUp(g)
        /\ UNCHANGED <<catalog, people, generated, batches>>

CommitBatch(g) ==
    /\ gen[g].at = "commit"
    /\ generated' = generated \cup gen[g].wrote
    /\ GiveUp(g)
    /\ UNCHANGED <<catalog, people, batches>>

\* The request waits for a connection and there is none.
Waits(g) ==
    /\ FreeConnections = 0
    /\ \/ gen[g].at = "customer" /\ ~gen[g].given
       \/ gen[g].at = "product"
       \/ gen[g].at = "write" /\ ~Holds(g)

\* Mutants: only requests without a connection time out; a batch that times out
\* keeps what it has written.
TimeoutIfEmpty(g) ==
    /\ Waits(g) /\ ~Holds(g) /\ GiveUp(g)
    /\ UNCHANGED <<catalog, people, generated, batches>>
TimeoutKeeps(g) ==
    /\ Waits(g) /\ GiveUp(g)
    /\ generated' = generated \cup gen[g].wrote
    /\ UNCHANGED <<catalog, people, batches>>

\* After pool_timeout the wait raises.
PoolTimeout(g) ==
    /\ Waits(g) /\ GiveUp(g)
    /\ UNCHANGED <<catalog, people, generated, batches>>

\* delete_product: a row no item refers to; a pending item makes it wait.
RemoveProduct(p) ==
    /\ p \in catalog
    /\ \A o \in generated \cup UNION {gen[g].wrote : g \in Gens} : o.product # p
    /\ catalog' = catalog \ {p}
    /\ UNCHANGED <<people, generated, gen, batches>>

\* add-customer
AddCustomer(c) ==
    /\ c \notin people /\ people' = people \cup {c}
    /\ UNCHANGED <<catalog, generated, gen, batches>>

GenStep(g) == PickCustomer(g) \/ PickProduct(g) \/ WriteOrder(g) \/ CommitBatch(g)

GenNext ==
    \/ \E g \in Gens, given \in BOOLEAN : GenerateOrders(g, given) \/ HighValueOrder(g, given)
    \/ \E g \in Gens : GenerateBacklog(g)
    \/ \E g \in Gens : GenStep(g) \/ PoolTimeout(g)
    \/ \E p \in SimProducts : RemoveProduct(p)
    \/ \E c \in SimCustomers : AddCustomer(c)

\* Requests go on, and a wait for the pool ends after pool_timeout.
GenFairness == \A g \in Gens : WF_genVars(GenStep(g)) /\ WF_genVars(PoolTimeout(g))

GenSpec == GenInit /\ [][GenNext]_genVars /\ GenFairness

-----------------------------------------------------------------------------
\* A generated batch is committed whole or not at all, although a product may
\* be deleted, or the pool run dry, between two of its orders.  (A backlog
\* leaves out the orders it finds no customer or product for.)
BatchWhole ==
    \A o \in generated : o.kind = "orders" =>
        {m.n : m \in {p \in generated : p.batch = o.batch}} = 1..BatchSize

\* Batches that hold all connections of the pool wait for each other: the
\* timeout of the pool ends that, and every request is answered.
GeneratorsEnd == \A g \in Gens : gen[g].at # "idle" ~> gen[g].at = "idle"
=============================================================================
