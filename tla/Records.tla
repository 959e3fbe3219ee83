------------------------------ MODULE Records ------------------------------
(***************************************************************************)
(* CRM records: customers and the enrichment cache in front of them        *)
(* (server/modules/customers.py, customer_enrichment.py and create_customer*)
(* of simulation.py), and the tickets, invoices, shipments, campaigns,     *)
(* leads and reports that their modules insert and update.                 *)
(*                                                                         *)
(* An e-mail address is a base and its case: the unique key and the lookup *)
(* tell the cases apart, the key of the cache does not.  The other columns *)
(* of a customer are one, ver.  Redis is external.                         *)
(***************************************************************************)
EXTENDS Integers, FiniteSets

CONSTANTS
    Lookups,         \* calls of find_customer_by_email under way at once
    Drafts,          \* create-customer simulations under way at once
    Addresses,       \* e-mail addresses in lower case
    CacheTtl,        \* _TTL_SECONDS
    MaxLookup,       \* the longest a lookup takes
    MaxWrites,       \* bound: writes of customers, and half the steps of create-customer
    MaxRows,         \* bound: other records
    MaxNow           \* bound: time

ASSUME RecordsAssumption ==
    /\ CacheTtl \in Nat \ {0} /\ MaxLookup \in Nat
    /\ MaxWrites \in Nat /\ MaxRows \in Nat /\ MaxNow \in Nat

Spellings == [base : Addresses, cased : BOOLEAN]

VARIABLES
    customers,       \* rows; checked, began and ended for the properties
    draft,           \* draft[d]: between the SELECT and the INSERT
    cached,          \* cached[a]: the entry by-email:a
    lookup,          \* lookup[l]: between the GET and the SET
    changed,         \* changed[e]: when the answer for e last changed
    writes,          \* writes of customers so far
    step,            \* number of SELECTs and INSERTs of create-customer so far
    now,
    records          \* rows of the other tables

customerVars == <<customers, draft, writes, step>>
cacheVars == <<cached, lookup>>
recordVars == <<customerVars, cacheVars, changed, now, records>>

NoLookup == [at |-> "idle", email |-> CHOOSE e \in Spellings : TRUE, val |-> {}, began |-> 0]
NoEntry == [email |-> CHOOSE e \in Spellings : TRUE, val |-> {}, expires |-> 0]
NoDraft == [busy |-> FALSE, email |-> CHOOSE e \in Spellings : TRUE, began |-> 0]

RecordsInit ==
    /\ customers = {} /\ records = {} /\ now = 0 /\ writes = 0 /\ step = 0
    /\ draft = [d \in Drafts |-> NoDraft]
    /\ cached = [a \in Addresses |-> NoEntry]
    /\ lookup = [l \in Lookups |-> NoLookup]
    /\ changed = [e \in Spellings |-> 0]

-----------------------------------------------------------------------------
(* Customers.                                                              *)

Answer(e) == {[id |-> c.id, ver |-> c.ver] : c \in {d \in customers : d.email = e}}
EmailFree(e) == Answer(e) = {}

\* The table becomes C; the e-mail addresses whose answer that changes are noted.
WriteCustomers(C) ==
    /\ writes < MaxWrites /\ writes' = writes + 1
    /\ customers' = C
    /\ changed' = [e \in Spellings |-> IF Answer(e)' # Answer(e) THEN now ELSE changed[e]]
    /\ UNCHANGED <<cacheVars, now, records>>

\* customers.create_customer and add_random_customer: the key is the only check.
CreateCustomer(e) ==
    /\ EmailFree(e)
    /\ WriteCustomers(customers \cup {[id |-> writes + 1, email |-> e, ver |-> writes + 1,
                                       checked |-> FALSE, began |-> 0, ended |-> 0]})
    /\ UNCHANGED <<draft, step>>

\* update_customer sets the columns it is given, the address among them.
UpdateCustomer(c, e) ==
    /\ e = c.email \/ EmailFree(e)
    /\ WriteCustomers((customers \ {c}) \cup
                         {[c EXCEPT !.email = e, !.ver = writes + 1, !.checked = @ /\ e = c.email]})
    /\ UNCHANGED <<draft, step>>

\* Mutant: the simulation compares the addresses as they are written.
AsWritten(e) == EmailFree(e)

\* SELECT id FROM customers WHERE LOWER(email) = :email
NotThere(e) == \A c \in customers : c.email.base # e.base

CheckCustomer(d, e) ==
    /\ ~draft[d].busy /\ NotThere(e) /\ step < 2 * MaxWrites
    /\ step' = step + 1
    /\ draft' = [draft EXCEPT ![d] = [busy |-> TRUE, email |-> e, began |-> step']]
    /\ UNCHANGED <<customers, writes, cacheVars, changed, now, records>>

InsertCustomer(d) ==
    LET e == draft[d].email
    IN  /\ draft[d].busy /\ EmailFree(e)
        /\ step' = step + 1
        /\ WriteCustomers(customers \cup {[id |-> writes + 1, email |-> e, ver |-> writes + 1,
                                           checked |-> TRUE, began |-> draft[d].began, ended |-> step']})
        /\ draft' = [draft EXCEPT ![d] = NoDraft]

\* The unique key refuses the row (500), or the request breaks off.
InsertFails(d) ==
    /\ draft[d].busy /\ draft' = [draft EXCEPT ![d] = NoDraft]
    /\ UNCHANGED <<customers, writes, step, cacheVars, changed, now, records>>

-----------------------------------------------------------------------------
(* The enrichment cache.                                                   *)

LiveEntry(a) == now < cached[a].expires

\* find_customer_by_email: a hit answers with the entry and changes nothing.
\* Without an entry, or without Redis, the database is asked.
Miss(l, e) ==
    /\ lookup[l].at = "idle" /\ ~LiveEntry(e.base)
    /\ lookup' = [lookup EXCEPT ![l] = [at |-> "read", email |-> e, val |-> {}, began |-> now]]
    /\ UNCHANGED <<customerVars, cached, changed, now, records>>

\* _find_by_email_in_db
FindInDb(l) ==
    /\ lookup[l].at = "read"
    /\ lookup' = [lookup EXCEPT ![l].at = "store", ![l].val = Answer(lookup[l].email)]
    /\ UNCHANGED <<customerVars, cached, changed, now, records>>

\* Mutant: the entry is set without a time to live.
Forever(a, e) == [e EXCEPT !.expires = MaxNow + 1]

NewEntry(a, e) == e

\* A customer who is not there is cached too, as an empty answer.
StoreAnswer(l) ==
    LET a == lookup[l].email.base
    IN  /\ lookup[l].at = "store"
        /\ cached' = [cached EXCEPT ![a] = NewEntry(a, [email |-> lookup[l].email, val |-> lookup[l].val,
                                                        expires |-> now + CacheTtl])]
        /\ lookup' = [lookup EXCEPT ![l] = NoLookup]
        /\ UNCHANGED <<customerVars, changed, now, records>>

\* The database raises, or Redis does not take the entry.
LookupEnds(l) ==
    /\ lookup[l].at # "idle" /\ lookup' = [lookup EXCEPT ![l] = NoLookup]
    /\ UNCHANGED <<customerVars, cached, changed, now, records>>

\* Left to the callers of the module; customers.py does not call it.
InvalidateCustomerCache(a) ==
    /\ cached' = [cached EXCEPT ![a] = NoEntry]
    /\ UNCHANGED <<customerVars, lookup, changed, now, records>>

Tick ==
    /\ now < MaxNow /\ now' = now + 1
    /\ \A l \in Lookups : lookup[l].at # "idle" => now < lookup[l].began + MaxLookup
    /\ UNCHANGED <<customerVars, cacheVars, changed, records>>

-----------------------------------------------------------------------------
(* The other records.                                                      *)

\* The status a row begins with, and the one that is stamped with its time.
Begins == [ticket |-> "open", invoice |-> "pending", shipment |-> "processing",
           campaign |-> "draft", lead |-> "new", report |-> ""]
Final == [shipment |-> "delivered", lead |-> "converted"]

InsertRecord(kind) ==
    LET id == Cardinality(records) + 1
    IN  /\ id <= MaxRows
        /\ records' = records \cup {[id |-> id, kind |-> kind, status |-> Begins[kind],
                                     stamped |-> FALSE, finished |-> FALSE]}
        /\ UNCHANGED <<customerVars, cacheVars, changed, now>>

CreateTicket == InsertRecord("ticket")
CreateShipment == InsertRecord("shipment")
CreateCampaign == InsertRecord("campaign")
CreateReport == InsertRecord("report")
SeedInvoice == InsertRecord("invoice")      \* invoices come with the demo data

\* The foreign key wants the campaign.
CreateLead == (\E r \in records : r.kind = "campaign") /\ InsertRecord("lead")

\* Mutant: the time is set with every status, and is NULL unless it is final.
StampNow(r, status) == status = Final[r.kind]

\* actual_delivery, converted_at: set with the final status, never taken back.
Stamp(r, status) == r.stamped \/ status = Final[r.kind]

\* Any status may follow any other.
SetStatus(r, status) ==
    /\ records' = (records \ {r}) \cup {[r EXCEPT !.status = status, !.stamped = Stamp(r, status),
                                                  !.finished = @ \/ status = Final[r.kind]]}
    /\ UNCHANGED <<customerVars, cacheVars, changed, now>>

UpdateShipmentStatus(r) ==
    r.kind = "shipment" /\ \E status \in {"processing", "delivered"} : SetStatus(r, status)
UpdateLeadStatus(r) ==
    r.kind = "lead" /\ \E status \in {"new", "converted"} : SetStatus(r, status)

PayInvoice(r) ==
    /\ r.kind = "invoice"
    /\ records' = (records \ {r}) \cup {[r EXCEPT !.status = "paid"]}
    /\ UNCHANGED <<customerVars, cacheVars, changed, now>>

WriteNext == \E e \in Spellings : CreateCustomer(e) \/ \E c \in customers : UpdateCustomer(c, e)

DraftNext == \E d \in Drafts : InsertCustomer(d) \/ InsertFails(d) \/ \E e \in Spellings : CheckCustomer(d, e)

CacheNext ==
    \/ \E l \in Lookups : FindInDb(l) \/ StoreAnswer(l) \/ LookupEnds(l) \/ \E e \in Spellings : Miss(l, e)
    \/ \E a \in Addresses : InvalidateCustomerCache(a)
    \/ Tick

StatusNext ==
    \/ CreateTicket \/ CreateShipment \/ CreateCampaign \/ CreateLead \/ CreateReport \/ SeedInvoice
    \/ \E r \in records : PayInvoice(r) \/ UpdateShipmentStatus(r) \/ UpdateLeadStatus(r)

RecordsNext == WriteNext \/ DraftNext \/ CacheNext \/ StatusNext

RecordsSpec == RecordsInit /\ [][RecordsNext]_recordVars

-----------------------------------------------------------------------------
\* "TTL-based cache means staleness is already bounded" (customer_enrichment):
\* an entry that is not what the table answers to the spelling it was stored
\* for is wrong for less than its time to live and the time of one lookup, also
\* when the customer changed, or the entry was invalidated, during the lookup.
StaleAtMostTtl ==
    \A a \in Addresses :
        LET e == cached[a].email
        IN  LiveEntry(a) /\ cached[a].val # Answer(e) => now < changed[e] + CacheTtl + MaxLookup

\* create-customer looks for the address in any case before it inserts: two of
\* its customers have addresses that differ in case only if neither request
\* looked after the other had inserted.
SpelledTwiceOnlyByRace ==
    \A c, d \in customers :
        c # d /\ c.email.base = d.email.base /\ c.checked /\ d.checked
            => c.began < d.ended /\ d.began < c.ended

\* A shipment or lead that was ever delivered or converted has the time of it,
\* whatever its status has been set to since.
CompletionStamped == \A r \in records : r.finished => r.stamped
=============================================================================
