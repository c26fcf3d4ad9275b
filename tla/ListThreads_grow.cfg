CONSTANTS
    Threads = {t1, t2, t3, t4}
    ReadLocked = {}
    InitSize = 2
    MaxItems = 1
    MaxSlots = 8
    Faults = {}
SPECIFICATION ListSpec
PROPERTY GrowsOnlyWhenFull
CHECK_DEADLOCK FALSE
