SPECIFICATION FairSpec
CONSTANTS
    t1 = t1
    t2 = t2
    t3 = t3
    t4 = t4
    Threads <- FourThreads
    maxSize_ = 2
    MaxPuts = 4
INVARIANTS
    NoElementSleptOn
    NoPlaceSleptOn
PROPERTIES
    HeadIsTaken
    ImplementsUnbounded
CHECK_DEADLOCK FALSE
