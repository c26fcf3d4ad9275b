\* Every failure but those of pthread_cond_signal and pthread_cond_broadcast; three threads, two slots.
CONSTANTS
    t1 = t1
    t2 = t2
    t3 = t3
    a = a
    b = b
    Threads <- ThreeThreads
    Items <- OneItem
    NoItem = NoItem
    NoThread = NoThread
    BufSize = 2
    Disturbances <- WakeupsDelivered
SPECIFICATION FairBufSpec
INVARIANTS
    NoLostWakeup
PROPERTY DoneWakesAll
CHECK_DEADLOCK FALSE
