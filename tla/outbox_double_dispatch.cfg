CONSTANTS
    w1 = w1
    w2 = w2
    w3 = w3
    Events = {1}
    Poison = {}
    Workers <- TwoWorkers
    BatchSize = 1
    SessionOpens = TRUE
SPECIFICATION Spec
INVARIANT
    NoDoubleDispatch
CHECK_DEADLOCK FALSE
