SPECIFICATION Spec
CONSTANTS
    rollSize_ = 3
    flushInterval_ = 1
    checkEveryN_ = 2
    kRollPerSeconds_ = 4
    LineLens <- MCLineLens
    Faults <- MCFaults
    MaxTime = 4
    MaxLines = 3
INVARIANTS
    NamesIncrease
    CrashLosesOnlyATail
    BoundedStaleness
    DayBoundary
PROPERTIES
    ImplementsSink
CHECK_DEADLOCK FALSE
