CONSTANTS
    s1 = s1
    s2 = s2
    s3 = s3
    Sessions = {s1, s2, s3}
    Ops = {"in", "out"}
    Batches = {1}
    CountBatch = 3
    MaxRows = 2
    MaxQty = 2
    MaxStock = 2
    MaxVersion = 2
    MaxDrift = 0
SPECIFICATION Spec
SYMMETRY SessionSymmetry
INVARIANTS
    TypeOK
    NoLostUpdate
PROPERTY
    ImplementsLedger
CHECK_DEADLOCK FALSE
