CONSTANTS
    s1 = s1
    s2 = s2
    s3 = s3
    Sessions = {s1, s2}
    Ops = {"in", "count"}
    Batches = {1}
    CountBatch = 3
    MaxRows = 1
    MaxQty = 2
    MaxStock = 3
    MaxVersion = 2
    MaxDrift = 0
SPECIFICATION Spec
INVARIANT
    NoLostUpdate
CHECK_DEADLOCK FALSE
