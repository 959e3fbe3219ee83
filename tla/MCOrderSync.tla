---------------------------- MODULE MCOrderSync ----------------------------
(* Small instances of OrderSync for TLC.                                   *)
EXTENDS OrderSync, TLC

Payload(email, status, list) ==
    [hasId |-> TRUE, wellFormed |-> TRUE, email |-> email, status |-> status, items |-> list]

Drone == [ref |-> "drone", name |-> "drone"]      \* in the catalogue
Rotor == [ref |-> "rotor", name |-> "rotor"]      \* unknown, referenced by name
Frame == [ref |-> "f-77", name |-> "frame"]       \* unknown, referenced by code

FrameByName == [ref |-> "frame", name |-> "frame"]

MCSkuOf == [k \in CatalogKeys |-> CASE k = "rotor" -> "sync-2" [] k = "f-77" -> "sync-3"
                                     [] k = "frame" -> "sync-4" [] OTHER -> "sync-1"]
MCSeedProducts == {[sku |-> "drn-1", keys |-> {"drn-1", "drone"}]}
MCExternalEmail == [r \in Refs |-> CASE r = "r1" -> "r1@external.local" [] r = "r2" -> "r2@external.local"
                                     [] OTHER -> "r3@external.local"]

\* One order that changes items and status.
MCOneOrder == "r1" :> <<Payload("ann", "pending", <<Drone>>),
                        Payload("ann", "shipped", <<Drone, Rotor>>)>>

\* Beside it one that shares its customer and a product new to the CRM.
MCShared == ("r1" :> <<Payload("ann", "pending", <<Rotor>>),
                       Payload("ann", "shipped", <<Drone, Rotor>>)>>)
         @@ ("r2" :> <<Payload("ann", "shipped", <<Drone, Rotor>>)>>)

\* A batch with an order that fails after it created a product, one that then
\* finds the rolled-back product in the cache, and one that is first without
\* an id and then malformed.
MCMixedBatch == ("r1" :> <<Payload("ann", "pending", <<Frame, Frame>>)>>)
             @@ ("r2" :> <<Payload(None, "pending", <<FrameByName>>),
                           Payload("bob", "shipped", <<Drone>>)>>)
             @@ ("r3" :> <<[Payload("bob", "pending", <<>>) EXCEPT !.hasId = FALSE],
                           [Payload("bob", "pending", <<>>) EXCEPT !.wellFormed = FALSE]>>)

\* An order without an e-mail address that changes status.
MCNoEmail == "r1" :> <<Payload(None, "pending", <<Drone>>), Payload(None, "shipped", <<Drone>>)>>

\* A good order beside a malformed one.
MCMalformed == ("r1" :> <<Payload("ann", "pending", <<Drone>>)>>)
            @@ ("r2" :> <<[Payload("bob", "pending", <<>>) EXCEPT !.wellFormed = FALSE]>>)

\* Either the first order alone changes, with patches and faults, or the two
\* orders are there together, without: all at once are too many states.  Only
\* Publish, PatchRead and faults could lead out of it, to which nothing is bound.
Modest == upstream["r2"] > 0 => upstream["r1"] <= 1 /\ patches = 0 /\ faults = 0

RunnerSymmetry == Permutations(Runners)
============================================================================
