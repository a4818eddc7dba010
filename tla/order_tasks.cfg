CONSTANTS
    o1 = o1
    o2 = o2
    s1 = s1
    s2 = s2
    Orders = {o1, o2}
    Sessions = {s1}
    Tasks <- TaskNames
    MaxHistory = 3
    MaxAge = 3
    MaxIdle = 2
SPECIFICATION Spec
SYMMETRY Symmetry
CONSTRAINT Small
INVARIANTS
    CompletedWasPicked
PROPERTIES
    DecidedWhileOpen
    DraftIsLeftOnce
CHECK_DEADLOCK FALSE
