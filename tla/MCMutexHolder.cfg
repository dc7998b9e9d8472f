SPECIFICATION Spec
CONSTANTS
    w1 = w1
    w2 = w2
    c1 = c1
    c2 = c2
    c3 = c3
    Waiters <- MCWaiters
    Counters <- MCCounters
    count = 2
    Nobody = Nobody
INVARIANT InsideIsHolder
CHECK_DEADLOCK FALSE
