SPECIFICATION Spec
CHECK_DEADLOCK FALSE
CONSTANTS
    Threads = {1, 2}
    ReadLocked <- MCReadLocked
    InitSize = 1
    MaxItems = 3
    MaxSlots = 4
    Faults <- MCListFaults
    NumThreads = 3
    Blocks = 2
    ThreadPrograms <- MCThreadPrograms
    ObjThreads = {1, 2, 3}
    BarrierSize = 2
    Objects <- MCObjects
    ComputeSet = {1, 2}
    MaxAdds = 3
    CallFaults <- MCCallFaults
    Getters = {1, 2}
    Putters = {3}
    RingSize = 1
    MaxPuts = 2
    Variants <- MCVariants
    VariantFaults <- MCVariantFaults
    Lookers = {"t1", "t2", "t3"}
    NameVersions <- MCNameVersions
    TextToolNames <- MCTextTools
    MaxText = 4
    MaxTyped = 3
INVARIANTS TraversalIsComplete DescriptorsKept ObjectsAgree VariantIsFifo NamesAndTexts
PROPERTY ThreadsEnd
