SPECIFICATION ServicesSpec
CONSTANTS
    LoginHandlers = {h1, h2, h3}
    Processes = {p1, p2}
    Clients = {c1}
    MaxAttempts = 2
    LoggingConfigured = TRUE
    MaxRecords = 3
    MaxLogRestarts = 1
    Outages = {t1, t2}
    Operators = {o1, o2}
    SessionRoles = {"chaos-operator"}
    Ttls = {1, 2}
    MaxChaosRequests = 3
    MaxClock = 4
    Starters = {r1, r2}
    MaxKills = 1
    Gens = {g1, g2}
    PoolSize = 2
    BatchSize = 2
    SimProducts = {q1}
    SimCustomers = {k1}
    MaxBatches = 2
INVARIANT LimiterOvershoot
INVARIANT LogInOrder
INVARIANT OneScenarioUnlessRaced
INVARIANT SeededOnce
INVARIANT AdminWhenReady
INVARIANT BatchWhole
PROPERTY LimiterReopens
PROPERTY OutageEnds
PROPERTY ChaosEnds
PROPERTY EveryoneStarts
PROPERTY GeneratorsEnd
CHECK_DEADLOCK FALSE
