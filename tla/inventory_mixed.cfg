CONSTANTS
    s1 = s1
    s2 = s2
    s3 = s3
    Sessions = {s1, s2}
    Ops = {"in", "out", "count", "pick"}
    Batches = {1}
    CountBatch = 3
    MaxRows = 3
    MaxQty = 2
    MaxStock = 2
    MaxVersion = 2
    MaxDrift = 1
SPECIFICATION Spec
SYMMETRY SessionSymmetry
INVARIANTS
    NegativeWasCounted
    
    DuplicatesNeedRace
CHECK_DEADLOCK FALSE
