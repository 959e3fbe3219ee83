------------------------------ MODULE Catalog ------------------------------
(***************************************************************************)
(* The product catalogue and its propagation: server/modules/products.py,  *)
(* server/modules/shops.py and server/shop_catalog_sync.py.  A change is   *)
(* committed here first and pushed to the drone shop afterwards.  The push *)
(* is never repeated; POST /api/products/sync/shop pushes every product.   *)
(* The products that the seeding of an empty database and the order sync   *)
(* insert are not pushed at all.                                           *)
(*                                                                         *)
(* create_product, and the operations on shops, check and write under      *)
(* unique and foreign keys that repeat the check, so each is one step.     *)
(* update_product and delete_product load a row first and use it later.    *)
(*                                                                         *)
(* A SKU is a base and its case.  The columns without a key (name, price,  *)
(* stock...) are one: ver, the number of the change that wrote them.  The  *)
(* drone shop is external.                                                 *)
(***************************************************************************)
EXTENDS Integers, FiniteSets, Sequences

CONSTANTS
    Editors,         \* requests that have loaded a product, at once
    SkuBases,        \* SKUs in upper case
    Seeds,           \* SKUs of the demo products, in the order of their ids
    Slugs,           \* slugs of shops
    MaxChanges,      \* bound: changes of products (and nothing that prepares a further one)
    MaxShops         \* bound: shops created

Skus == [base : SkuBases, cased : BOOLEAN]

ASSUME CatalogAssumption ==
    /\ IsFiniteSet(SkuBases) /\ MaxChanges \in Nat /\ MaxShops \in Nat
    /\ Seeds \in Seq(SkuBases) /\ \A i, j \in DOMAIN Seeds : Seeds[i] = Seeds[j] => i = j

VARIABLES
    products, shops, \* rows
    ordered,         \* ids of products that order items refer to
    edit,            \* edit[e]: the product e has loaded and what it will write
    wire,            \* pushes under way
    copy,            \* copy[b]: what the drone shop has under the SKU b
    changes, opened, \* changes of products, shops created
    silent,          \* ids of products inserted without a push, and not pushed since
    exact,           \* nothing has blurred the copy since the last full sync
    clean            \* nothing ever has, and no SKU has been given up by a rename

catalogVars == <<products, shops, ordered, edit, wire, copy, changes, opened, silent, exact, clean>>

Absent == [ver |-> 0, active |-> FALSE]
NoEdit == [at |-> "idle", loaded |-> {}, new |-> {}]

\* A product as bootstrap_database and _resolve_product insert it.
Unpushed(n, base, shop) ==
    [id |-> n, sku |-> [base |-> base, cased |-> FALSE], ver |-> n, active |-> TRUE, shop |-> shop]

\* An empty catalogue, or the demo products of the primary shop, some of which
\* the demo orders refer to.
CatalogInit ==
    /\ \/ products = {} /\ shops = {} /\ ordered = {} /\ changes = 0 /\ opened = 0
       \/ /\ products = {Unpushed(i, Seeds[i], 1) : i \in DOMAIN Seeds}
          /\ \E slug \in Slugs : shops = {[id |-> 1, slug |-> slug]}
          /\ ordered \in SUBSET DOMAIN Seeds /\ changes = Len(Seeds) /\ opened = 1
    /\ silent = {p.id : p \in products} /\ wire = {}
    /\ edit = [e \in Editors |-> NoEdit]
    /\ copy = [b \in SkuBases |-> Absent]
    /\ exact = TRUE /\ clean = TRUE

Only(S) == CHOOSE x \in S : TRUE
Current(id) == {p \in products : p.id = id}
SkuFree(sku, id) == \A p \in products : p.sku = sku => p.id = id
ShopExists(shop) == shop = 0 \/ \E s \in shops : s.id = shop

-----------------------------------------------------------------------------
(* Pushes.                                                                 *)

\* build_shop_sync_payload: the SKU is put into upper case.
View(p) == [id |-> p.id, key |-> p.sku.base, ver |-> p.ver, active |-> p.active]

\* One POST with the payloads of P.
Push(action, P) == wire' = wire \cup {[n |-> changes', action |-> action, views |-> {View(p) : p \in P}]}

\* Two products share a SKU in the shop.
Collision(P) == \E p, q \in P : p # q /\ p.sku.base = q.sku.base

\* A change blurs the copy if another push is under way (it may overtake this
\* one), if the row was changed since it was loaded, or if SKUs collide.
Blur(stale, renamed) ==
    LET blurred == wire # {} \/ stale \/ Collision(products')
    IN  exact' = (exact /\ ~blurred) /\ clean' = (clean /\ ~blurred /\ ~renamed)

-----------------------------------------------------------------------------
(* Products.                                                               *)

CreateProduct(sku, active, shop) ==
    LET p == [id |-> changes + 1, sku |-> sku, ver |-> changes + 1, active |-> active, shop |-> shop]
    IN  /\ changes < MaxChanges /\ SkuFree(sku, 0) /\ ShopExists(shop)
        /\ changes' = changes + 1
        /\ products' = products \cup {p}
        /\ Push("upsert", {p}) /\ Blur(FALSE, FALSE)
        /\ UNCHANGED <<shops, ordered, edit, copy, opened, silent>>

\* _resolve_product: an order item names an unknown product, and is committed
\* with it.  Nothing is pushed, so a push under way is blurred only if it is
\* about the same SKU.
AutoCreateProduct(base) ==
    LET p == Unpushed(changes + 1, base, 0)
        blurred == Collision(products') \/ \E m \in wire : \E v \in m.views : v.key = base
    IN  /\ changes < MaxChanges /\ SkuFree(p.sku, 0)
        /\ changes' = changes + 1
        /\ products' = products \cup {p} /\ ordered' = ordered \cup {p.id}
        /\ silent' = silent \cup {p.id}
        /\ exact' = (exact /\ ~blurred) /\ clean' = (clean /\ ~blurred)
        /\ UNCHANGED <<shops, edit, wire, copy, opened>>

\* update_product: the row is loaded and the request checked against it.
LoadForUpdate(e, p, sku, active, shop) ==
    /\ edit[e].at = "idle" /\ changes < MaxChanges /\ SkuFree(sku, p.id) /\ ShopExists(shop)
    /\ edit' = [edit EXCEPT ![e] = [at |-> "update", loaded |-> {p},
                   new |-> {[p EXCEPT !.sku = sku, !.active = active, !.shop = shop]}]]
    /\ UNCHANGED <<products, shops, ordered, wire, copy, changes, opened, silent, exact, clean>>

\* The UPDATE names the columns that differ from what was loaded.
Merge(row, loaded, new) ==
    [c \in DOMAIN row |-> IF new[c] # loaded[c] THEN new[c] ELSE row[c]]

\* It fails if the row is gone, the SKU taken or the shop deleted by now.  What
\* is pushed is the product in memory: the request, not the merged row.  A
\* request that asks for what was loaded needs no UPDATE, and is pushed even if
\* the row is gone.
UpdateProduct(e) ==
    LET loaded == Only(edit[e].loaded)
        asked == Only(edit[e].new)
        new == [asked EXCEPT !.ver = changes + 1]
        row == Only(Current(loaded.id))
        merged == Merge(row, loaded, new)
        fits == /\ Current(loaded.id) # {}
                /\ SkuFree(merged.sku, loaded.id) /\ ShopExists(merged.shop)
    IN  /\ edit[e].at = "update" /\ changes < MaxChanges
        /\ edit' = [edit EXCEPT ![e] = NoEdit]
        /\ \/ /\ fits
              /\ changes' = changes + 1
              /\ products' = (products \ {row}) \cup {merged}
              /\ Push("upsert", {new}) /\ silent' = silent \ {loaded.id}
              /\ Blur(row # loaded, new.sku.base # loaded.sku.base)
           \/ /\ asked = loaded
              /\ changes' = changes + 1
              /\ Push("upsert", {loaded}) /\ silent' = silent \ {loaded.id}
              /\ UNCHANGED products /\ Blur(loaded \notin products, FALSE)
           \/ /\ ~fits
              /\ UNCHANGED <<products, wire, changes, silent, exact, clean>>
        /\ UNCHANGED <<shops, ordered, copy, opened>>

\* delete_product: the items are counted and the product archived or deleted.
LoadForDelete(e, p) ==
    /\ edit[e].at = "idle" /\ changes < MaxChanges
    /\ edit' = [edit EXCEPT ![e] = [at |-> IF p.id \in ordered THEN "archive" ELSE "delete",
                                    loaded |-> {p}, new |-> {[p EXCEPT !.active = FALSE]}]]
    /\ UNCHANGED <<products, shops, ordered, wire, copy, changes, opened, silent, exact, clean>>

\* Mutants: the snapshot is pushed as it was loaded; nothing is deactivated.
PushLoaded(e) == Push("upsert", edit[e].loaded)
PushNothing(e) == UNCHANGED wire

PushInactive(e) == Push("deactivate", edit[e].new)

\* No UPDATE is needed if the product was inactive; otherwise the row must exist.
ArchiveProduct(e) ==
    LET loaded == Only(edit[e].loaded)
        row == Only(Current(loaded.id))
    IN  /\ edit[e].at = "archive" /\ changes < MaxChanges
        /\ edit' = [edit EXCEPT ![e] = NoEdit]
        /\ \/ /\ loaded.active => Current(loaded.id) # {}
              /\ changes' = changes + 1
              /\ products' = IF loaded.active THEN (products \ {row}) \cup {[row EXCEPT !.active = FALSE]}
                             ELSE products
              /\ PushInactive(e) /\ Blur(loaded \notin products, FALSE)
           \/ /\ loaded.active /\ Current(loaded.id) = {}
              /\ UNCHANGED <<products, wire, changes, exact, clean>>
        /\ UNCHANGED <<shops, ordered, copy, opened, silent>>

\* An order item that has come meanwhile makes the DELETE fail.
DeleteProduct(e) ==
    LET loaded == Only(edit[e].loaded)
    IN  /\ edit[e].at = "delete" /\ changes < MaxChanges
        /\ edit' = [edit EXCEPT ![e] = NoEdit]
        /\ \/ /\ loaded.id \notin ordered
              /\ changes' = changes + 1
              /\ products' = products \ Current(loaded.id)
              /\ PushInactive(e) /\ Blur(loaded \notin products, FALSE)
           \/ /\ loaded.id \in ordered
              /\ UNCHANGED <<products, wire, changes, exact, clean>>
        /\ UNCHANGED <<shops, ordered, copy, opened, silent>>

\* sync_catalog_to_shop: all products, as they are now.
SyncCatalog ==
    /\ changes < MaxChanges /\ products # {}
    /\ changes' = changes + 1
    /\ Push("upsert", products) /\ silent' = {}
    /\ UNCHANGED <<products, shops, ordered, edit, copy, opened, exact, clean>>

\* An order item refers to the product (order sync, create_order, generators),
\* or the last one that did is replaced by the items of a newer version.
OrderProduct(p) ==
    /\ changes < MaxChanges
    /\ ordered' = IF p.id \in ordered THEN ordered \ {p.id} ELSE ordered \cup {p.id}
    /\ UNCHANGED <<products, shops, edit, wire, copy, changes, opened, silent, exact, clean>>

-----------------------------------------------------------------------------
(* Shops.                                                                  *)

SlugFree(slug, id) == \A s \in shops : s.slug = slug => s.id = id

CreateShop(slug) ==
    /\ opened < MaxShops /\ SlugFree(slug, 0)
    /\ opened' = opened + 1
    /\ shops' = shops \cup {[id |-> opened + 1, slug |-> slug]}
    /\ UNCHANGED <<products, ordered, edit, wire, copy, changes, silent, exact, clean>>

UpdateShop(s, slug) ==
    /\ SlugFree(slug, s.id)
    /\ shops' = (shops \ {s}) \cup {[s EXCEPT !.slug = slug]}
    /\ UNCHANGED <<products, ordered, edit, wire, copy, changes, opened, silent, exact, clean>>

\* Refused (409) while products are assigned to the shop.
DeleteShop(s) ==
    /\ \A p \in products : p.shop # s.id
    /\ shops' = shops \ {s}
    /\ UNCHANGED <<products, ordered, edit, wire, copy, changes, opened, silent, exact, clean>>

-----------------------------------------------------------------------------
(* The drone shop.                                                         *)

\* External: the products of a push are stored one after the other.
Stored(m) ==
    [b \in SkuBases |->
        LET V == {v \in m.views : v.key = b}
            last == CHOOSE v \in V : \A w \in V : w.id <= v.id
        IN  IF V = {} THEN copy[b]
            ELSE IF m.action = "deactivate" THEN [copy[b] EXCEPT !.active = FALSE]
            ELSE [ver |-> last.ver, active |-> last.active]]

\* The push arrives; the handler need not have waited for it (15 s).  A full
\* sync that nothing has overtaken makes the copy exact again.
Deliver(m) ==
    /\ copy' = Stored(m) /\ wire' = wire \ {m}
    /\ exact' = \/ exact
                \/ /\ wire = {m} /\ m.action = "upsert"
                   /\ m.views = {View(p) : p \in products} /\ ~Collision(products)
    /\ UNCHANGED <<products, shops, ordered, edit, changes, opened, silent, clean>>

\* It is not sent (not configured), or fails; the error is answered with the rest.
Lose(m) ==
    /\ wire' = wire \ {m} /\ exact' = FALSE /\ clean' = FALSE
    /\ UNCHANGED <<products, shops, ordered, edit, copy, changes, opened, silent>>

ProductNext ==
    \/ \E sku \in Skus, active \in BOOLEAN, shop \in {0} \cup {s.id : s \in shops} :
          \/ CreateProduct(sku, active, shop)
          \/ \E e \in Editors, p \in products : LoadForUpdate(e, p, sku, active, shop)
    \/ \E base \in SkuBases : AutoCreateProduct(base)
    \/ \E e \in Editors : UpdateProduct(e) \/ ArchiveProduct(e) \/ DeleteProduct(e)
    \/ \E p \in products : OrderProduct(p) \/ \E e \in Editors : LoadForDelete(e, p)
    \/ SyncCatalog
    \/ \E m \in wire : Deliver(m) \/ Lose(m)

ShopNext ==
    \/ \E slug \in Slugs : CreateShop(slug) \/ \E s \in shops : UpdateShop(s, slug)
    \/ \E s \in shops : DeleteShop(s)

CatalogNext == ProductNext \/ ShopNext

CatalogSpec == CatalogInit /\ [][CatalogNext]_catalogVars

-----------------------------------------------------------------------------
\* When all pushes have arrived the drone shop shows every product as it is
\* here, but for those that came without a push and were not pushed since.  It
\* may not if since the last undisturbed full sync a push was lost, two were
\* under way together, a product came in, or a row changed, under a push or an
\* edit of it, or SKUs differ in case only.
ShopMirrorsProducts ==
    exact /\ wire = {} =>
        \A p \in products :
            p.id \in silent \/ copy[p.sku.base] = [ver |-> p.ver, active |-> p.active]

\* Under the same conditions, held from the beginning and without a renamed SKU
\* (a full sync pushes what exists and heals none of this), the shop sells
\* nothing that was deleted or archived here.
ShopSellsNothingElse ==
    clean /\ wire = {} =>
        \A b \in SkuBases : copy[b].active => \E p \in products : p.sku.base = b /\ p.active
=============================================================================
