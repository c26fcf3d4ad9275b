CONSTANTS
    t1 = t1
    t2 = t2
    t3 = t3
    a = a
    b = b
    Threads <- ThreadSet
    Items <- ItemSet
    NoItem = NoItem
    NoThread = NoThread
    BufSize = 2
    FaultSets <- ThreeFaultSets
SPECIFICATION Spec
INVARIANTS
    PermitsAreBacked
PROPERTY RefinesQueue
SYMMETRY Symmetry
CHECK_DEADLOCK FALSE
