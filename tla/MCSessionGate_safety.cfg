SPECIFICATION Spec
CONSTANTS
    Replicas = {a}
    Workers = {w1}
    Requests = {r1, r2, r3}
    Sids = {s1, s2}
    TTL = 1
    None = None
    MaxQueue = 4
    MaxFaults = 1
SYMMETRY Symmetry
INVARIANT TypeOK
INVARIANT SemaphoreExact
INVARIANT OneLookupEach
INVARIANT LookupsBounded
INVARIANT NoForcedLogout
