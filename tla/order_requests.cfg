CONSTANTS
    o1 = o1
    o2 = o2
    s1 = s1
    s2 = s2
    Orders = {o1}
    Sessions = {s1, s2}
    Tasks <- NoTasks
    MaxHistory = 0
    MaxAge = 0
    MaxIdle = 0
SPECIFICATION Spec
SYMMETRY Symmetry
INVARIANTS
    TypeOK
    AnnouncedWasCommitted
PROPERTIES
    DecidedWhileOpen
CHECK_DEADLOCK FALSE
