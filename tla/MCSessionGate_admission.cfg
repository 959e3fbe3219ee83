SPECIFICATION Spec
CONSTANTS
    Replicas = {a}
    Workers = {w1}
    Requests = {r1, r2, r3}
    Sids = {s1}
    TTL = 1
    None = None
    MaxQueue = 5
    MaxFaults = 1
INVARIANT AdmissionControl
