SPECIFICATION OfficeSpec
CONSTANTS
    Handlers = {h1, h2}
    Replicas = {rep1}
    Browsers = {b1, b2}
    Bases = {"ann", "bob"}
    Addrs = {"root", "ann", "eve"}
    Owned = {"root"}
    Logins <- MCLogins
    Signups <- MCSignups
    Identities <- MCIdentities
    Roles = {"user", "admin"}
    Admin <- MCAdmin
    AbortsOnError = FALSE
    MaxSessions = 1
    MaxFlows = 2
    MaxEvents = 2
    Editors = {e1, e2}
    SkuBases = {"OCTO-001", "OCTO-002"}
    Seeds <- MCSeeds
    Slugs = {s1}
    MaxChanges = 3
    MaxShops = 1
    Lookups = {l1, l2}
    Drafts = {d1, d2}
    Addresses = {a1}
    CacheTtl = 2
    MaxLookup = 1
    MaxWrites = 2
    MaxRows = 2
    MaxNow = 4
SYMMETRY OfficeSymmetry
INVARIANT OneSsoAccount
INVARIANT RefusedWithReason
INVARIANT RotationHeals
INVARIANT SsoSessionGenuine
INVARIANT RoleCopied
INVARIANT ShopMirrorsProducts
INVARIANT ShopSellsNothingElse
INVARIANT StaleAtMostTtl
INVARIANT SpelledTwiceOnlyByRace
INVARIANT CompletionStamped
CHECK_DEADLOCK FALSE
