SPECIFICATION FairSpec
CONSTANTS
    w1 = w1
    w2 = w2
    c1 = c1
    c2 = c2
    Workers <- MCWorkers
    Clients <- MCClients
    size_ = 1
    Free = Free
    MaxTasks = 3
INVARIANTS
    NobodySleepsOn
    RunInOrder
PROPERTIES
    QueuedTaskRuns
    FullQueueMoves
    StopReturns
CHECK_DEADLOCK FALSE
