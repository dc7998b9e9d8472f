----------------------- MODULE MCBoundedBlockingQueue -----------------------
EXTENDS BoundedBlockingQueue

CONSTANTS t1, t2, t3, t4

FourThreads == {t1, t2, t3, t4}
TwoThreads == {t1, t2}
=============================================================================
