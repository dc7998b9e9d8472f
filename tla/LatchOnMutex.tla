---------------------------- MODULE LatchOnMutex ----------------------------
(***************************************************************************)
(* CountDownLatch (asynlog/CountDownLatch.cc) as the code has it: wait()   *)
(* and countDown() statement by statement between the pthread_mutex_lock() *)
(* and the pthread_mutex_unlock() of their MutexLockGuard.  The look at    *)
(* count_ and the sleep it leads to are two steps, and so are the          *)
(* decrement and the notification: only mutex_ keeps the others out        *)
(* between them.  Each thread makes one call.                              *)
(*                                                                         *)
(* It is shown to implement CountDownLatch, where each critical section is *)
(* one step, and to use its mutex and condition variable as MutexLock has  *)
(* them; both are instantiated over what the variables here say of them.   *)
(***************************************************************************)
EXTENDS Integers, FiniteSets

CONSTANTS
    Waiters,    \* the threads that call wait()
    Counters,   \* the threads that call countDown()
    count,      \* the constructor's argument; any int
    Nobody      \* no thread: holder_ = 0, and the pthread mutex when it is free

ASSUME LatchAssumption ==
    /\ Waiters \cap Counters = {} /\ Nobody \notin Waiters \cup Counters
    /\ IsFiniteSet(Counters)
    /\ count \in Int

VARIABLES
    count_,
    mutex_,     \* the owner of the pthread mutex
    holder_,    \* who assigned itself last
    asleep,     \* the threads in pthread_cond_wait(), mutex released
    at          \* where each thread is

vars == <<count_, mutex_, holder_, asleep, at>>

Callers == Waiters \cup Counters

Init ==
    /\ count_ = count
    /\ mutex_ = Nobody /\ holder_ = Nobody
    /\ asleep = {}
    /\ at = [t \in Callers |-> "out"]

Goes(t, here, there) == at[t] = here /\ at' = [at EXCEPT ![t] = there]

-----------------------------------------------------------------------------
(* MutexLockGuard lock(mutex_), in both calls. *)

calls(t) ==
    /\ Goes(t, "out", "lock")
    /\ UNCHANGED <<count_, mutex_, holder_, asleep>>

locks(t) ==
    /\ mutex_ = Nobody
    /\ mutex_' = t
    /\ Goes(t, "lock", "locked")
    /\ UNCHANGED <<count_, holder_, asleep>>

assignsHolder(t) ==
    /\ holder_' = t
    /\ Goes(t, "locked", "inside")
    /\ UNCHANGED <<count_, mutex_, asleep>>

(* wait() *)

\* The test of the loop.
looks(w) ==
    /\ \/ count_ > 0 /\ Goes(w, "inside", "closed")
       \/ ~ count_ > 0 /\ Goes(w, "inside", "leaving")
    /\ UNCHANGED <<count_, mutex_, holder_, asleep>>

SleepsLocked(w) ==   \* (mutation: a wait that keeps the mutex)
    /\ asleep' = asleep \cup {w}
    /\ Goes(w, "closed", "waiting")
    /\ UNCHANGED <<count_, mutex_, holder_>>

\* condition_.wait(): the pthread mutex is given up, holder_ is not touched.
sleeps(w) ==
    /\ mutex_' = Nobody
    /\ asleep' = asleep \cup {w}
    /\ Goes(w, "closed", "waiting")
    /\ UNCHANGED <<count_, holder_>>

spuriousWakeup(w) ==
    /\ w \in asleep
    /\ asleep' = asleep \ {w}
    /\ UNCHANGED <<count_, mutex_, holder_, at>>

IfForWhile == "leaving"   \* (mutation: if for while)

\* Where condition_.wait() returns to.
LoopTest == "inside"

\* condition_.wait() returns, the pthread mutex locked again.
wakes(w) ==
    /\ w \notin asleep /\ mutex_ = Nobody
    /\ mutex_' = w
    /\ Goes(w, "waiting", LoopTest)
    /\ UNCHANGED <<count_, holder_, asleep>>

(* countDown() *)

\* count_ may become negative.
decrements(c) ==
    /\ count_' = count_ - 1
    /\ Goes(c, "inside", "counted")
    /\ UNCHANGED <<mutex_, holder_, asleep>>

NotifyOne ==   \* (mutation: notify() for notifyAll())
    IF asleep = {} THEN {} ELSE asleep \ {CHOOSE w \in asleep : TRUE}

\* notifyAll(): who is still asleep afterwards.
NotifyAll == {}

\* Only the step to zero notifies.
notifies(c) ==
    /\ asleep' = IF count_ = 0 THEN NotifyAll ELSE asleep
    /\ Goes(c, "counted", "leaving")
    /\ UNCHANGED <<count_, mutex_, holder_>>

(* ~MutexLockGuard(), in both calls. *)

UnassignsNothing(t) ==   \* (mutation: unlock() without unassignHolder())
    /\ Goes(t, "leaving", "unassigned")
    /\ UNCHANGED <<count_, mutex_, holder_, asleep>>

unassignsHolder(t) ==
    /\ holder_' = Nobody
    /\ Goes(t, "leaving", "unassigned")
    /\ UNCHANGED <<count_, mutex_, asleep>>

unlocks(t) ==
    /\ mutex_' = Nobody
    /\ Goes(t, "unassigned", "returned")
    /\ UNCHANGED <<count_, holder_, asleep>>

-----------------------------------------------------------------------------
Next ==
    \/ \E t \in Callers :
         calls(t) \/ locks(t) \/ assignsHolder(t) \/ unassignsHolder(t) \/ unlocks(t)
    \/ \E w \in Waiters : looks(w) \/ sleeps(w) \/ spuriousWakeup(w) \/ wakes(w)
    \/ \E c \in Counters : decrements(c) \/ notifies(c)

Spec == Init /\ [][Next]_vars

\* A thread in a call goes on, and one that wants the mutex, whenever it is
\* free again, has it in the end, although others may be faster.  Nobody has
\* to call countDown().
Fairness ==
    /\ \A t \in Callers :
         /\ SF_vars(locks(t))
         /\ WF_vars(assignsHolder(t) \/ unassignsHolder(t) \/ unlocks(t))
    /\ \A w \in Waiters : SF_vars(wakes(w)) /\ WF_vars(looks(w) \/ sleeps(w))
    /\ \A c \in Counters : WF_vars(decrements(c) \/ notifies(c))

FairSpec == Spec /\ Fairness

-----------------------------------------------------------------------------
(* Properties. *)

\* Every variable keeps its type; only a thread in condition_.wait() sleeps.
TypeOK ==
    /\ count_ \in Int
    /\ mutex_ \in Callers \cup {Nobody} /\ holder_ \in Callers \cup {Nobody}
    /\ at \in [Callers -> {"out", "lock", "locked", "inside", "closed", "waiting",
                           "counted", "leaving", "unassigned", "returned"}]
    /\ asleep \subseteq {w \in Waiters : at[w] = "waiting"}

\* What the code shows of the latch.  The decrement counts as countDown(), so
\* once count_ is zero the sleepers count as awake, notified or not yet.
waiting == {w \in Waiters : at[w] \notin {"out", "returned"}}
returned == {w \in Waiters : at[w] = "returned"}
counted == {c \in Counters : at[c] \in {"counted", "leaving", "unassigned", "returned"}}
toBeNotified == count_ = 0 /\ \E c \in Counters : at[c] = "counted"
sleeping == IF toBeNotified THEN {} ELSE asleep

Latch == INSTANCE CountDownLatch WITH asleep <- sleeping

\* The code is a latch, fairness included: although it looks, sleeps, counts
\* and notifies in separate steps, no decrement comes between a look at
\* count_ and the sleep, and no look between a decrement and its notification.
ImplementsLatch == Latch!FairSpec

\* No wait() returns before countDown() was called as often as the
\* constructor was told, however often the waiter was woken for nothing.
NoEarlyReturn == returned # {} => Cardinality(counted) >= count

\* No thread sleeps on a latch that is open: the one notification there is
\* finds everybody, and nobody goes to sleep after it.
NobodySleepsOnOpenLatch == Latch!NobodySleepsOnOpenLatch

\* What the code shows of the mutex.
placeAtMutex(place) ==
    IF place \in {"lock", "returned"} THEN "out"
    ELSE IF place \in {"closed", "counted", "leaving"} THEN "inside"
    ELSE place
atMutex == [t \in Callers |-> placeAtMutex(at[t])]

Mutex == INSTANCE MutexLock WITH Threads <- Callers, at <- atMutex

\* A thread that is not between lock() and unlock() is never taken for the
\* holder of the mutex, although wait() forgets holder_ and lets others assign
\* it: a waiter that unlocks clears whatever is left there.
NoFalseClaim == Mutex!NoFalseClaim

\* "must be called when locked, i.e. for assertion" (Mutex.h:51): whoever is
\* in the critical section of wait() or countDown() is told that it is.
InsideIsHolder == Mutex!InsideIsHolder
=============================================================================
