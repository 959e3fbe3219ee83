SPECIFICATION Spec
CONSTANTS
    Runners = {p1, p2}
    Clients = {c1}
    Refs = {"r1"}
    Content <- MCOneOrder
    SkuOf <- MCSkuOf
    ExternalEmail <- MCExternalEmail
    SeedCustomers = {"bob"}
    SeedProducts <- MCSeedProducts
    ManualRefs = {}
    Emails = {"ann", "bob", "r1@external.local", "r2@external.local", "r3@external.local"}
    Statuses = {"pending", "processing", "shipped"}
    CatalogKeys = {"drone", "rotor", "f-77", "frame", "drn-1", "sync-1", "sync-2", "sync-3", "sync-4"}
    PatchStatuses = {"processing", "shipped"}
    OrderIds = {1, 2, 3}
    None = None
    MaxPosts = 1
    MaxPatches = 1
    MaxFaults = 1
SYMMETRY RunnerSymmetry
INVARIANTS TypeOK OneOrderPerSourceRef ItemsAreOneVersion AuditMatchesOrders
PROPERTY IsLedger
