\* Two producers, one consumer, one slot; every call may fail.
CONSTANTS
    p1 = p1
    p2 = p2
    c1 = c1
    c2 = c2
    main = main
    sig = sig
    a = a
    Producers <- ProducerSet
    Consumers <- OneConsumer
    Main = main
    SigThread = sig
    Threads <- SafeThreadSet
    Items <- OneItem
    NoItem = NoItem
    NoThread = NoThread
    BufSize = 1
    Disturbances <- AllSites
    Faults <- ErrorsReported
SPECIFICATION Spec
INVARIANTS
    ResultsAreComplete
SYMMETRY ProducerSymmetry
CHECK_DEADLOCK FALSE
