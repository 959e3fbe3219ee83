SPECIFICATION Spec
CONSTANTS
    Runners = {p1}
    Clients = {c1}
    Refs = {"r1", "r2", "r3"}
    Content <- MCMixedBatch
    SkuOf <- MCSkuOf
    ExternalEmail <- MCExternalEmail
    SeedCustomers = {"bob"}
    SeedProducts <- MCSeedProducts
    ManualRefs = {"m1"}
    Emails = {"ann", "bob", "r1@external.local", "r2@external.local", "r3@external.local"}
    Statuses = {"pending", "processing", "shipped"}
    CatalogKeys = {"drone", "rotor", "f-77", "frame", "drn-1", "sync-1", "sync-2", "sync-3", "sync-4"}
    PatchStatuses = {"processing", "shipped"}
    OrderIds = {1, 2, 3}
    None = None
    MaxPosts = 1
    MaxPatches = 0
    MaxFaults = 0
INVARIANT ItemsMatchOrder
PROPERTY FailedUpsertLeavesNoTrace
