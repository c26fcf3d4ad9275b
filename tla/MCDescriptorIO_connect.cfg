SPECIFICATION SafeSpec
CHECK_DEADLOCK FALSE
CONSTANTS
    MessageLists <- MCMessageLists
    HeaderLen = 2
    MaxPack = 3
    LineMax = 4
    BlkSize = 2
    PipeSize = 3
    IOFaultSets <- MCIOFaultSets
    Million = 3
    Waits <- MCWaits
    MaxClock = 7
    TimedKinds <- MCTimedKinds
    LogProcs = {p1, p2}
    EntryLen = 2
    MaxEntries = 2
    MaxSends = 2
    PipeRoom = 2
    LogKinds <- MCKinds
    NumFds = 2
    Loads <- MCLoads
    ReadSize = 2
    MonKinds <- MCMonKinds
    MaxCalls = 2
    MaxRetries = 2
    MaxStrays = 1
    MaxDups = 1
    RRKinds <- MCRRKinds
    Clients = {1, 2}
    NoClient = 0
    MaxSent = 1
    MaxBacklog = 1
    UicKinds <- MCUicKinds
    EchoSize = 5
    EchoRoom = 2
    EchoBlock = 2
    LogThreads = {1, 2}
    LogFiles = {1, 2}
    MaxLogCalls = 4
    LogFaults = 1
    Tools <- MCTools
    MAX_PACK_SIZE = 4
    MAX_LINE_SIZE = 1
    AtomicWrite = 2
    PipeSpace = 2
    MaxPackets = 2
    Programs <- OnlyUici
    p1 = p1
    p2 = p2
INVARIANT ConnectReportsFailure
