\* Every failure and spurious wakeups, two slots.
CONSTANTS
    t1 = t1
    t2 = t2
    t3 = t3
    a = a
    b = b
    Threads <- ThreeThreads
    Items <- ItemSet
    NoItem = NoItem
    NoThread = NoThread
    BufSize = 2
    Disturbances <- AllSites
SPECIFICATION BufSpec
INVARIANTS
    RingConsistent
    TestStillHolds
    DrainedWhenCanceled
PROPERTY RefinesQueue
SYMMETRY ThreadSymmetry
CHECK_DEADLOCK FALSE
