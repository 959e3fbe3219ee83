----------------------------- MODULE Bootstrap -----------------------------
(***************************************************************************)
(* The start of a replica: lifespan of server/main.py awaits               *)
(* bootstrap_database (server/bootstrap.py), which completes the schema    *)
(* and then either seeds an empty database or reconciles the administrator *)
(* and the demo shops in one that has users.  An exception ends the        *)
(* process and the platform starts it again.                               *)
(*                                                                         *)
(* Replicas start together, and the database is shared with the shop.  DDL *)
(* commits at once (Oracle); the rows of a replica become visible when it  *)
(* commits.  A row is its unique keys: an INSERT waits for a key another   *)
(* transaction holds and fails on one that is taken.                       *)
(***************************************************************************)
EXTENDS Integers, Sequences, FiniteSets

CONSTANTS
    Starters,      \* replicas
    MaxKills       \* bound: replicas killed from outside

ASSUME BootAssumption == Starters # {} /\ MaxKills \in Nat

\* create_all, _ensure_order_columns, _ensure_product_columns, _ensure_catalog_schema
Schema == <<"tables", "order_columns", "product_columns", "catalog">>

Keys == {"admin", "crm-admin", "somebody", "admin@", "primary-store", "lab-store",
         "customers, products", "orders", "invoices"}

VARIABLES
    made,          \* parts of the schema that exist
    owner,         \* owner[k]: who has committed key k
    seeds,         \* seedings committed
    boot,          \* boot[r]: where replica r is
    held,          \* held[r]: keys of rows it has inserted and not committed
    kills

bootVars == <<made, owner, seeds, boot, held, kills>>

Taken(k) == owner[k] # "nobody"
HeldByOthers(r) == UNION {held[q] : q \in Starters \ {r}}

\* A statement of the rest of the transaction: rows to insert, or to look for
\* first and to update if they are there.
Insert(keys) == [keys |-> keys, lookup |-> FALSE]
Ensure(keys) == [keys |-> keys, lookup |-> TRUE]

DemoShops == <<Ensure({"primary-store"}), Ensure({"lab-store"})>>      \* _ensure_demo_shops
SeedPlan ==
    <<Insert({"admin", "admin@"})>> \o DemoShops
        \o <<Insert({"customers, products"}), Insert({"orders"}), Insert({"invoices"})>>

Begin == [at |-> "schema", part |-> 1, plan |-> <<>>, seeding |-> FALSE]
Down == [Begin EXCEPT !.at = "down"]

\* The database may hold an older schema.
BootInit ==
    /\ made \in {{Schema[i] : i \in 1..n} : n \in {0, 1, Len(Schema)}}
    /\ owner = [k \in Keys |-> "nobody"] /\ seeds = 0
    /\ boot = [r \in Starters |-> Begin] /\ held = [r \in Starters |-> {}]
    /\ kills = 0

Goto(r, b) == boot' = [boot EXCEPT ![r] = b]

\* The transaction is rolled back and the process ends.
Crash(r) == Goto(r, Down) /\ held' = [held EXCEPT ![r] = {}]

-----------------------------------------------------------------------------
\* A part of the schema is looked up, and created if it was not there.
CheckSchema(r) ==
    LET b == boot[r]
        done == [b EXCEPT !.part = @ + 1, !.at = IF b.part = Len(Schema) THEN "users" ELSE "schema"]
    IN  /\ b.at = "schema"
        /\ Goto(r, IF Schema[b.part] \in made THEN done ELSE [b EXCEPT !.at = "create"])
        /\ UNCHANGED <<made, owner, seeds, held, kills>>

\* Somebody else may have created it meanwhile: that is an error.
CreateSchema(r) ==
    LET part == Schema[boot[r].part]
    IN  /\ boot[r].at = "create"
        /\ made' = made \cup {part}
        /\ \/ part \notin made /\ Goto(r, [boot[r] EXCEPT !.at = "schema"]) /\ UNCHANGED held
           \/ part \in made /\ Crash(r)
        /\ UNCHANGED <<owner, seeds, kills>>

AnyUser == \E k \in {"admin", "crm-admin", "somebody"} : Taken(k)

\* SELECT of any user decides between seeding and reconciling.
LookForUsers(r) ==
    /\ boot[r].at = "users"
    /\ Goto(r, IF AnyUser
               THEN [boot[r] EXCEPT !.at = "email"]
               ELSE [boot[r] EXCEPT !.at = "next", !.plan = SeedPlan, !.seeding = TRUE])
    /\ UNCHANGED <<made, owner, seeds, held, kills>>

\* The administrator's row is updated if its address is there.
FindAdmin(r) ==
    /\ boot[r].at = "email"
    /\ Goto(r, IF Taken("admin@") THEN [boot[r] EXCEPT !.at = "next", !.plan = DemoShops]
               ELSE [boot[r] EXCEPT !.at = "name"])
    /\ UNCHANGED <<made, owner, seeds, held, kills>>

\* Mutants: the prefix is forgotten; a row with the name is taken for ours.
PlainName == <<Insert({"admin", "admin@"})>>
OursByName == IF Taken("admin") THEN <<>> ELSE <<Insert({"admin", "admin@"})>>

\* The name has the crm- prefix if the plain one is taken.
NewAdmin == <<Insert({IF Taken("admin") THEN "crm-admin" ELSE "admin", "admin@"})>>

ChooseName(r) ==
    /\ boot[r].at = "name"
    /\ Goto(r, [boot[r] EXCEPT !.at = "next", !.plan = NewAdmin \o DemoShops])
    /\ UNCHANGED <<made, owner, seeds, held, kills>>

\* The next statement: a shop that is there is only updated.
NextStatement(r) ==
    LET b == boot[r]
    IN  /\ b.at = "next" /\ b.plan # <<>>
        /\ Goto(r, IF Head(b.plan).lookup /\ \A k \in Head(b.plan).keys : Taken(k)
                   THEN [b EXCEPT !.plan = Tail(@)] ELSE [b EXCEPT !.at = "insert"])
        /\ UNCHANGED <<made, owner, seeds, held, kills>>

\* Mutant: a row that is there is skipped.
SkipRow(r) == Goto(r, [boot[r] EXCEPT !.at = "next", !.plan = Tail(@)]) /\ UNCHANGED held

RowRefused(r) == Crash(r)

InsertRows(r) ==
    LET b == boot[r]
        keys == Head(b.plan).keys
    IN  /\ b.at = "insert" /\ keys \cap HeldByOthers(r) = {}
        /\ \/ /\ \E k \in keys : Taken(k)
              /\ RowRefused(r)
           \/ /\ \A k \in keys : ~Taken(k)
              /\ held' = [held EXCEPT ![r] = @ \cup keys]
              /\ Goto(r, [b EXCEPT !.at = "next", !.plan = Tail(@)])
        /\ UNCHANGED <<made, owner, seeds, kills>>

\* One commit for everything; then the replica serves.
CommitBootstrap(r) ==
    LET b == boot[r]
    IN  /\ b.at = "next" /\ b.plan = <<>>
        /\ owner' = [k \in Keys |-> IF k \in held[r] THEN "crm" ELSE owner[k]]
        /\ seeds' = IF b.seeding THEN seeds + 1 ELSE seeds
        /\ Goto(r, [b EXCEPT !.at = "ready"]) /\ held' = [held EXCEPT ![r] = {}]
        /\ UNCHANGED <<made, kills>>

\* The platform starts a replica again that has ended, and may kill one.
StartAgain(r) ==
    /\ boot[r].at = "down" /\ Goto(r, Begin)
    /\ UNCHANGED <<made, owner, seeds, held, kills>>

Kill(r) ==
    /\ kills < MaxKills /\ kills' = kills + 1
    /\ Crash(r)
    /\ UNCHANGED <<made, owner, seeds>>

\* A row of the shop's or a registration: an account of somebody else, who may
\* have the name, or a product with one of the SKUs.
OthersInsert(k) ==
    /\ k \in {"admin", "crm-admin", "somebody", "customers, products"} /\ "tables" \in made
    /\ ~Taken(k) /\ \A r \in Starters : k \notin held[r]
    /\ owner' = [owner EXCEPT ![k] = "other"]
    /\ UNCHANGED <<made, seeds, boot, held, kills>>

BootStep(r) ==
    \/ CheckSchema(r) \/ CreateSchema(r) \/ LookForUsers(r) \/ FindAdmin(r) \/ ChooseName(r)
    \/ NextStatement(r) \/ InsertRows(r) \/ CommitBootstrap(r) \/ StartAgain(r)

BootNext ==
    \/ \E r \in Starters : BootStep(r) \/ Kill(r)
    \/ \E k \in Keys : OthersInsert(k)

\* A start goes on, and the platform starts what has ended.
BootFairness == \A r \in Starters : WF_bootVars(BootStep(r))

BootSpec == BootInit /\ [][BootNext]_bootVars /\ BootFairness

-----------------------------------------------------------------------------
\* The demo data is loaded at most once, however many replicas find the database
\* empty (half of it, tickets, warehouses and leads, has no unique key).
SeededOnce == seeds <= 1

\* A replica that serves has an administrator to sign in as, whatever accounts
\* the shop has made in the shared table.
AdminWhenReady == \A r \in Starters : boot[r].at = "ready" => owner["admin@"] = "crm"

\* What no start can get past: both names belong to others, or demo rows do in
\* a database without users.
Obstructed ==
    \/ owner["admin"] = "other" /\ owner["crm-admin"] = "other"
    \/ owner["customers, products"] = "other" /\ ~AnyUser

\* Races for the schema or the first rows end a process, but its next start gets
\* past them: every replica serves in the end.
EveryoneStarts == <>Obstructed \/ \A r \in Starters : <>(boot[r].at = "ready")
=============================================================================
