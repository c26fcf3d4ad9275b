SPECIFICATION Spec
CHECK_DEADLOCK FALSE
CONSTANTS
    PipeRoom = 3
    MaxMishaps = 1
    NumProcesses = 3
    CopyBlock = 2
    RepeatMax = 1
    ScriptNames <- MCScriptNames
    FaultyCalls <- MCFaultyCalls
    NumPeers = 5
    SocketScripts <- MCSocketScripts
    LeaveAfter = 1
    MaxLines = 2
    MaxStrays = 1
    MaxErrors = 1
INVARIANTS FilesHold ProcessesServed SocketsClosed StatusTells
PROPERTY FilesEnd
