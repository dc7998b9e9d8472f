--------------------------- MODULE MCLatchOnMutex ---------------------------
EXTENDS LatchOnMutex

CONSTANTS w1, w2, c1, c2, c3

\* One more countDown() than the latch was made for.
MCWaiters == {w1, w2}
MCCounters == {c1, c2, c3}
=============================================================================
