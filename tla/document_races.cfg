SPECIFICATION DatabaseSpec
CONSTANTS
    Sessions = {s1, s2}
    Requests = {q1, q2}
    Keys = {k1, k2}
    MaxRows = 3
SYMMETRY Interchangeable
INVARIANTS
    TypeOK
    RowsTypeOK
    NoStageSkipped
    StagesAreDated
    LastHasDeclared
    UpgradeStuckOnlyOnTypes
    RowsAreAsDeclared
PROPERTIES
    ReopenedByStaleReadOnly
    CarefulRefusedOnlyByRace
CHECK_DEADLOCK FALSE
