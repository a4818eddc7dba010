CONSTANTS
    w1 = w1
    w2 = w2
    w3 = w3
    Events = {1, 2}
    Poison = {1}
    Workers <- OneWorker
    BatchSize = 1
    SessionOpens = TRUE
SPECIFICATION FairSpec
PROPERTY
    EventuallyAccepted
CHECK_DEADLOCK FALSE
