\* One producer, two consumers, one slot; signals and broadcasts may fail.
CONSTANTS
    p1 = p1
    p2 = p2
    c1 = c1
    c2 = c2
    main = main
    sig = sig
    a = a
    Producers <- OneProducer
    Consumers <- ConsumerSet
    Main = main
    SigThread = sig
    Threads <- LiveThreadSet
    Items <- OneItem
    NoItem = NoItem
    NoThread = NoThread
    BufSize = 1
    Disturbances <- WakeupsMayFail
    Faults <- ThreadsFail
SPECIFICATION FairSpec
PROPERTY ProgramEnds
CHECK_DEADLOCK FALSE
