SPECIFICATION FairSpec
CONSTANTS
    t1 = t1
    t2 = t2
    t3 = t3
    t4 = t4
    Threads <- TwoThreads
    maxSize_ = 1
    MaxPuts = 2
PROPERTIES
    TimeTakeReturns
CHECK_DEADLOCK FALSE
