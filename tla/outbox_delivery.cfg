CONSTANTS
    w1 = w1
    w2 = w2
    w3 = w3
    Events = {1, 2, 3}
    Poison = {1}
    Workers <- TwoWorkers
    BatchSize = 2
    SessionOpens = TRUE
SPECIFICATION Spec
INVARIANTS
    TypeOK
    PendingIsUntouched
PROPERTIES
    ImplementsContract
CHECK_DEADLOCK FALSE
