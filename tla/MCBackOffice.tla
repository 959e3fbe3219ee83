--------------------------- MODULE MCBackOffice ---------------------------
(***************************************************************************)
(* Accounts, the catalogue and the CRM records for TLC.  These parts share *)
(* no state beyond the customers, so each behaviour exercises one of them: *)
(* the interleavings of independent parts would only multiply the states.  *)
(***************************************************************************)
EXTENDS Accounts, Catalog, Records, TLC

Plain(b) == [crm |-> FALSE, base |-> b]
Mail(a, cased) == [addr |-> a, cased |-> cased]

MCAdmin == [id |-> 0, name |-> Plain("ann"), email |-> Mail("root", FALSE), role |-> "admin", sso |-> FALSE]

MCLogins == {Plain("ann")}

\* Somebody takes the prefixed name, or the address in mixed case.
MCSignups == {[name |-> [crm |-> TRUE, base |-> "ann"], email |-> Mail("eve", FALSE)],
              [name |-> [crm |-> TRUE, base |-> "bob"], email |-> Mail("ann", TRUE)]}

\* One person, whose display name and whose address's case change.
MCIdentities == {[name |-> Plain("ann"), email |-> Mail("ann", FALSE)],
                 [name |-> Plain("bob"), email |-> Mail("ann", TRUE)]}

MCSeeds == <<"OCTO-001">>

OfficeSymmetry == Permutations(Handlers) \cup Permutations(Browsers)

VARIABLE part        \* the part this behaviour exercises

officeVars == <<vars, catalogVars, recordVars, part>>

\* Three changes of products where they meet on one SKU, two with two SKUs or
\* with shops; at most two pushes under way; two edits at once where there is one
\* SKU and no shop, and while both can still change something.
SecondSku ==
    Cardinality({p.sku.base : p \in products} \cup {b \in SkuBases : copy[b] # Absent}
                  \cup UNION {{p.sku.base : p \in edit[e].new} : e \in Editors}) > 1
TwoEdits == \A e \in Editors : edit[e].at # "idle"
\* Two events, but one beside an administrator's session and two sign-ins.
AdminIn == \E s \in sessions : s.uid = Admin.id

Modest ==
    /\ SecondSku => changes <= 2 /\ ~TwoEdits
    /\ part = "shops" => changes <= 2 /\ ~SecondSku
    /\ part = "shops" \/ shops # {} \/ changes > 1 => ~TwoEdits
    /\ Cardinality(wire) <= 2
    /\ AdminIn /\ Len(flow) > 1 => events <= 1

\* The editors are alike: another one is taken when the first is at work.
InTurn ==
    LET first == CHOOSE e \in Editors : TRUE
    IN  \A e \in Editors \ {first} :
           edit[e].at = "idle" /\ edit'[e].at # "idle" => edit[first].at # "idle"

OfficeInit ==
    /\ Init /\ CatalogInit /\ RecordsInit
    /\ part \in {"accounts", "products", "shops", "drafts", "cache", "status"}

OfficeNext ==
    /\ part' = part
    /\ \/ part = "accounts" /\ Next /\ UNCHANGED <<catalogVars, recordVars>>
       \/ /\ UNCHANGED <<vars, recordVars>>
          /\ \/ part \in {"products", "shops"} /\ ProductNext
             \/ part = "shops" /\ ShopNext
       \/ /\ UNCHANGED <<vars, catalogVars>>
          /\ \/ part \in {"drafts", "cache"} /\ WriteNext
             \/ part = "drafts" /\ DraftNext
             \/ part = "cache" /\ CacheNext
             \/ part = "status" /\ StatusNext
    /\ Modest' /\ InTurn

OfficeSpec == OfficeInit /\ [][OfficeNext]_officeVars

=============================================================================
