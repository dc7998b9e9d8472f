--------------------------- MODULE CountDownLatch ---------------------------
(***************************************************************************)
(* CountDownLatch (asynlog/CountDownLatch.cc): waiters sleep in            *)
(* condition_ until count_ is no longer positive; each counter calls       *)
(* countDown() once.  The body of countDown(), and each pass of wait()'s   *)
(* loop, runs under mutex_ and is one action.                              *)
(***************************************************************************)
EXTENDS Integers

CONSTANTS
    Waiters,    \* the threads that call wait()
    Counters,   \* the threads that call countDown()
    count       \* the constructor's argument; any int

VARIABLES
    count_,
    waiting,    \* the threads in wait()
    asleep,     \* those of them asleep in condition_
    returned,   \* the threads whose wait() has returned
    counted     \* the threads whose countDown() is over

vars == <<count_, waiting, asleep, returned, counted>>

Init ==
    /\ count_ = count
    /\ waiting = {} /\ asleep = {} /\ returned = {} /\ counted = {}

beginWait(w) ==
    /\ w \notin waiting \cup returned
    /\ waiting' = waiting \cup {w}
    /\ UNCHANGED <<count_, asleep, returned, counted>>

waitSleeps(w) ==
    /\ w \in waiting \ asleep /\ count_ > 0
    /\ asleep' = asleep \cup {w}
    /\ UNCHANGED <<count_, waiting, returned, counted>>

waitReturns(w) ==
    /\ w \in waiting \ asleep /\ ~ count_ > 0
    /\ waiting' = waiting \ {w} /\ returned' = returned \cup {w}
    /\ UNCHANGED <<count_, asleep, counted>>

\* if (count_ == 0) notifyAll(): who is still asleep afterwards.
StillAsleep(n) == IF n = 0 THEN {} ELSE asleep

\* count_ may become negative; only the step to zero notifies.
countDown(c) ==
    /\ c \notin counted
    /\ counted' = counted \cup {c}
    /\ count_' = count_ - 1
    /\ asleep' = StillAsleep(count_ - 1)
    /\ UNCHANGED <<waiting, returned>>

spuriousWakeup(w) ==
    /\ w \in asleep
    /\ asleep' = asleep \ {w}
    /\ UNCHANGED <<count_, waiting, returned, counted>>

Next ==
    \/ \E w \in Waiters :
         beginWait(w) \/ waitSleeps(w) \/ waitReturns(w) \/ spuriousWakeup(w)
    \/ \E c \in Counters : countDown(c)

Spec == Init /\ [][Next]_vars

\* A thread in wait() gets mutex_ in the end, and sleeps or returns; nobody
\* has to count down.  This is weak fairness of waitSleeps(w) \/ waitReturns(w),
\* which is enabled as long as w is awake in wait(), and ends that.
Fairness == \A w \in Waiters : []<>(w \notin waiting \ asleep)

FairSpec == Spec /\ Fairness

-----------------------------------------------------------------------------
(* Properties. *)

\* Every variable keeps its type; only a thread in wait() can be asleep.
TypeOK ==
    /\ count_ \in Int
    /\ waiting \subseteq Waiters /\ asleep \subseteq waiting
    /\ returned \subseteq Waiters /\ counted \subseteq Counters

\* No thread sleeps on a latch that is open: the one notification there is
\* finds everybody, and nobody goes to sleep after it.
NobodySleepsOnOpenLatch == asleep # {} => count_ > 0
=============================================================================
