SPECIFICATION DatabaseSpec
CONSTANTS
    Sessions = {s1, s2}
    Requests = {q1, q2}
    Keys = {k1, k2}
    MaxRows = 3
SYMMETRY Interchangeable
INVARIANT
    DeclaredKeysHold
CHECK_DEADLOCK FALSE
