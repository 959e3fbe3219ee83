SPECIFICATION FairSpec
CONSTANTS
    Replicas = {a, b}
    Workers = {w1}
    Requests = {r1, r2}
    Sids = {s1}
    TTL = 2
    None = None
    MaxQueue = 1
    MaxFaults = 1
PROPERTY EveryRequestAnswered
PROPERTY LogoutTakesEffect
