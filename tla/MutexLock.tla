----------------------------- MODULE MutexLock -----------------------------
(***************************************************************************)
(* MutexLock and Condition (asynlog/Mutex.h, Condition.h, Condition.cc):   *)
(* a pthread mutex that also remembers the thread that locked it, and a    *)
(* condition variable that waits on the pthread mutex behind its back.     *)
(* Any number of threads lock, wait, notify and unlock.                    *)
(***************************************************************************)
CONSTANTS
    Threads,
    Nobody      \* no thread: holder_ = 0, and the pthread mutex when it is free

VARIABLES
    mutex_,     \* the owner of the pthread mutex
    holder_,    \* who assigned itself last
    asleep,     \* the threads in pthread_cond_wait(), mutex released
    at          \* where each thread is

vars == <<mutex_, holder_, asleep, at>>

\* MutexLock(), Condition()
Init ==
    /\ mutex_ = Nobody /\ holder_ = Nobody
    /\ asleep = {}
    /\ at = [t \in Threads |-> "out"]

Goes(t, place) == at' = [at EXCEPT ![t] = place]

\* lock(): pthread_mutex_lock(), then assignHolder().
lock(t) ==
    /\ at[t] = "out" /\ mutex_ = Nobody
    /\ mutex_' = t
    /\ Goes(t, "locked")
    /\ UNCHANGED <<holder_, asleep>>

assignHolder(t) ==
    /\ at[t] = "locked"
    /\ holder_' = t
    /\ Goes(t, "inside")
    /\ UNCHANGED <<mutex_, asleep>>

\* unlock(): unassignHolder(), then pthread_mutex_unlock().
unassignHolder(t) ==
    /\ at[t] = "inside"
    /\ holder_' = Nobody
    /\ Goes(t, "unassigned")
    /\ UNCHANGED <<mutex_, asleep>>

unlock(t) ==
    /\ at[t] = "unassigned"
    /\ mutex_' = Nobody
    /\ Goes(t, "out")
    /\ UNCHANGED <<holder_, asleep>>

\* Condition::wait(), timeWait(): mutex_ is given up, holder_ is not touched.
wait(t) ==
    /\ at[t] = "inside"
    /\ mutex_' = Nobody
    /\ asleep' = asleep \cup {t}
    /\ Goes(t, "waiting")
    /\ UNCHANGED holder_

\* notify(), notifyAll(), a timeout of timeWait() or a spurious wakeup: some
\* of the sleepers leave the condition variable.
wakeUp ==
    /\ \E woken \in SUBSET asleep :
         woken # {} /\ asleep' = asleep \ woken
    /\ UNCHANGED <<mutex_, holder_, at>>

\* wait() returns with the pthread mutex locked again.
waitReturns(t) ==
    /\ at[t] = "waiting" /\ t \notin asleep /\ mutex_ = Nobody
    /\ mutex_' = t
    /\ Goes(t, "inside")
    /\ UNCHANGED <<holder_, asleep>>

Next ==
    \/ wakeUp
    \/ \E t \in Threads :
         \/ lock(t) \/ assignHolder(t) \/ unassignHolder(t) \/ unlock(t)
         \/ wait(t) \/ waitReturns(t)

Spec == Init /\ [][Next]_vars

isLockedByThisThread(t) == holder_ = t

-----------------------------------------------------------------------------
(* Properties. *)

Places == {"out", "locked", "inside", "unassigned", "waiting"}

\* Every variable keeps its type; only a waiting thread can be asleep.
TypeOK ==
    /\ mutex_ \in Threads \cup {Nobody}
    /\ holder_ \in Threads \cup {Nobody}
    /\ at \in [Threads -> Places]
    /\ asleep \subseteq {t \in Threads : at[t] = "waiting"}

\* A thread that is not between lock() and unlock() is never taken for the
\* holder, however locks, waits and unlocks of others interleave.
NoFalseClaim ==
    \A t \in Threads : at[t] \in {"out", "locked"} => ~ isLockedByThisThread(t)

\* ~MutexLock() may assert holder_ == 0 once no thread is inside or waiting.
DestructorAssertion ==
    (\A t \in Threads : at[t] = "out") => holder_ = Nobody

\* "must be called when locked, i.e. for assertion" (Mutex.h:51): a thread
\* that is inside is told so, and assertLocked() holds.
InsideIsHolder ==
    \A t \in Threads : at[t] = "inside" => isLockedByThisThread(t)
=============================================================================
