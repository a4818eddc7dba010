SPECIFICATION ServicesSpec
CONSTANTS
    Clients = {c1, c2}
    Procs = {p1, p2}
    MaxSecond = 1
    MaxQuotes = 1
    MaxIssued = 3
    MaxFaults = 1
    Callers = {g1, g2, g3}
    Readers = {r1, r2}
    Ttl = 2
    MaxFill = 1
    MaxClock = 6
    Attempts = {a1, a2}
    Limit = 2
    Window = 3
    MaxDelay = 1
    MaxTime = 4
    MaxTries = 2
    MaxSockets = 5
    MaxConns = 2
    Executions = {e1, e2}
    MaxRecords = 3
    BatchSize = 2
    Hubs = {h1, h2, h3}
    OriginHubs = {h1}
    DestHubs = {h2, h3}
    Distances = {1, 3}
    FlatCost = 2
    NoCost = 99
    Skus = {u1, u2, u3}
    Months = {m1, m2}
    Quantities = {0, 1, 4, 15}
INVARIANTS
    ServicesTypeOK
    ExchangedOncePerIssue
    KnownToAllOrOne
    AloneUnlessExcused
    StaleForOneTtl
    NotOverfull
    AtMostMaxConns
    NoDuplicateSends
    SyncedIsOnServer
    TotalCostIsMinimal
    ParetoClasses
PROPERTIES
    RejectedOnlyWhenBusy
    LockIsFreed
CHECK_DEADLOCK FALSE
