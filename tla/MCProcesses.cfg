SPECIFICATION Spec
CHECK_DEADLOCK FALSE
CONSTANTS
    MaxSignals = 3
    MaxWaits = 2
    SigKinds <- MCSigKinds
    FileSize = 3
    AioBlock = 2
    MaxCopies = 2
    MaxStray = 2
    Billion = 3
    MaxTimes = 3
    Incs <- MCIncs
    Starts <- MCStarts
    TimerKinds <- MCTimerKinds
    NumProcs = 4
    TreeKinds <- MCTreeKinds
    RingSize = 4
    Processes = {1, 2, 3}
    MaxAdds = 1
    FailureSets <- MCFailureSets
    ShellNames <- MCShells
    MaxCommands = 2
    MaxInterrupts = 2
    QWriters = {"w1", "w2"}
    QLines = 2
    QCapacity = 2
    MaxEmpty = 1
    IpcKinds <- MCIpcKinds
    NumMembers = 3
    SemPrograms <- MCSemPrograms
    SigScripts <- MCSigScripts
    MaxSends = 3
    MaxCount = 1
    Inputs = {1, 2}
    InputSize = 3
    ReadBlock = 2
    MaxShown = 3
    ReadKinds <- MCReadKinds
INVARIANTS SignalsKept CopiesExact TimerGoesOn RelativesInOrder SumIsGuarded ShellWaits MessagesInOrder SemaphoresGuard
PROPERTY ProcessesEnd
