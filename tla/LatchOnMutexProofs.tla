------------------------- MODULE LatchOnMutexProofs -------------------------
(***************************************************************************)
(* Theorems of the latch: its code, statement by statement, implements     *)
(* CountDownLatch, whose critical sections are single steps, because its   *)
(* mutex keeps them apart; and what that gives the callers.  For all sets  *)
(* of waiters and counters and every constructor argument.                 *)
(***************************************************************************)
EXTENDS LatchOnMutex, FiniteSetTheorems, TLAPS

-----------------------------------------------------------------------------
(* The latch of CountDownLatch. *)

\* count_ is the constructor's argument less one per countDown(), so it
\* passes through zero at most once; who has returned saw it not positive.
Counting ==
    /\ count_ = count - Cardinality(counted)
    /\ returned # {} => ~ count_ > 0

LatchInv == Latch!TypeOK /\ Counting /\ Latch!NobodySleepsOnOpenLatch

LEMMA LatchInitially == Latch!Init => LatchInv
<1> SUFFICES ASSUME Latch!Init PROVE LatchInv
  OBVIOUS
<1>1. Cardinality(counted) = 0
  BY FS_EmptySet DEF Latch!Init
<1> QED BY <1>1, LatchAssumption
        DEF Latch!Init, LatchInv, Latch!TypeOK, Counting, Latch!NobodySleepsOnOpenLatch

LEMMA WaiterKeepsLatchInv ==
    ASSUME LatchInv, NEW w \in Waiters,
           \/ Latch!beginWait(w) \/ Latch!waitSleeps(w)
           \/ Latch!waitReturns(w) \/ Latch!spuriousWakeup(w)
    PROVE  LatchInv'
<1> USE DEF LatchInv, Latch!TypeOK, Counting, Latch!NobodySleepsOnOpenLatch
<1>1. CASE Latch!beginWait(w)
  BY <1>1 DEF Latch!beginWait
<1>2. CASE Latch!waitSleeps(w)
  BY <1>2 DEF Latch!waitSleeps
<1>3. CASE Latch!waitReturns(w)
  BY <1>3 DEF Latch!waitReturns
<1>4. CASE Latch!spuriousWakeup(w)
  BY <1>4 DEF Latch!spuriousWakeup
<1> QED BY <1>1, <1>2, <1>3, <1>4

LEMMA CounterKeepsLatchInv ==
    ASSUME LatchInv, NEW c \in Counters, Latch!countDown(c)
    PROVE  LatchInv'
<1> USE DEF LatchInv, Latch!countDown
<1>1. IsFiniteSet(counted)
  BY LatchAssumption, FS_Subset DEF Latch!TypeOK
<1>2. Cardinality(counted') = Cardinality(counted) + 1
  BY <1>1, FS_AddElement
<1>3. Cardinality(counted) \in Nat
  BY <1>1, FS_CardinalityType
<1>4. Latch!TypeOK'
  BY DEF Latch!TypeOK, Latch!StillAsleep
<1>5. Counting'
  BY <1>2, <1>3, LatchAssumption DEF Counting, Latch!TypeOK
<1>6. Latch!NobodySleepsOnOpenLatch'
  BY DEF Latch!NobodySleepsOnOpenLatch, Latch!TypeOK, Latch!StillAsleep
<1> QED BY <1>4, <1>5, <1>6

LEMMA LatchInductive == Latch!Spec => []LatchInv
<1>1. LatchInv /\ [Latch!Next]_(Latch!vars) => LatchInv'
  <2> SUFFICES ASSUME LatchInv, [Latch!Next]_(Latch!vars) PROVE LatchInv'
    OBVIOUS
  <2>1. CASE Latch!Next
    BY <2>1, WaiterKeepsLatchInv, CounterKeepsLatchInv DEF Latch!Next
  <2>2. CASE UNCHANGED Latch!vars
    BY <2>2 DEF Latch!vars, LatchInv, Latch!TypeOK, Counting, Latch!NobodySleepsOnOpenLatch
  <2> QED BY <2>1, <2>2
<1> QED BY <1>1, LatchInitially, PTL DEF Latch!Spec

LEMMA ReturnsCounted == LatchInv => NoEarlyReturn
<1> SUFFICES ASSUME LatchInv, returned # {} PROVE Cardinality(counted) >= count
  BY DEF NoEarlyReturn
<1>1. Cardinality(counted) \in Nat
  BY LatchAssumption, FS_Subset, FS_CardinalityType DEF LatchInv, Latch!TypeOK
<1> QED BY <1>1, LatchAssumption DEF LatchInv, Counting

-----------------------------------------------------------------------------
(* The mutex of the code, and what a thread inside has seen. *)

Section == {"locked", "inside", "closed", "counted", "leaving", "unassigned"}

\* The pthread mutex belongs to the thread that is in the critical section;
\* holder_ is nobody, or a thread that came past assignHolder() and has not
\* unlocked since.  It need not be the owner: wait() forgets it.
Excluded ==
    /\ \A t \in Callers : mutex_ = t <=> at[t] \in Section
    /\ \A t \in Callers : holder_ = t => at[t] \in {"inside", "closed", "counted", "leaving", "waiting"}

\* Whoever is about to sleep on count_ has seen it positive, and whoever has
\* left wait() has seen that it is not; neither has changed since.  Waiters
\* do not count and counters do not wait.
Seen ==
    /\ \A w \in Waiters :
         /\ at[w] = "closed" => count_ > 0
         /\ at[w] \in {"leaving", "unassigned", "returned"} => ~ count_ > 0
         /\ at[w] # "counted"
    /\ \A c \in Counters : at[c] \notin {"closed", "waiting"}

IInv == TypeOK /\ Excluded /\ Seen

LEMMA Initially == Init => IInv
BY LatchAssumption DEF Init, IInv, TypeOK, Excluded, Section, Seen, Callers

LEMMA GuardKeepsIInv ==
    ASSUME IInv, NEW t \in Callers,
           \/ calls(t) \/ locks(t) \/ assignsHolder(t)
           \/ unassignsHolder(t) \/ unlocks(t)
    PROVE  IInv'
<1> USE DEF IInv, TypeOK, Excluded, Section, Seen, Goes
<1>1. Waiters \subseteq Callers /\ Counters \subseteq Callers /\ Nobody \notin Callers
  BY LatchAssumption DEF Callers
<1>2. CASE calls(t)
  BY <1>1, <1>2 DEF calls
<1>3. CASE locks(t)
  BY <1>1, <1>3 DEF locks
<1>4. CASE assignsHolder(t)
  BY <1>1, <1>4 DEF assignsHolder
<1>5. CASE unassignsHolder(t)
  BY <1>1, <1>5 DEF unassignsHolder
<1>6. CASE unlocks(t)
  BY <1>1, <1>6 DEF unlocks
<1> QED BY <1>2, <1>3, <1>4, <1>5, <1>6

LEMMA WaiterKeepsIInv ==
    ASSUME IInv, NEW w \in Waiters,
           looks(w) \/ sleeps(w) \/ spuriousWakeup(w) \/ wakes(w)
    PROVE  IInv'
<1> USE DEF IInv, TypeOK, Excluded, Section, Seen, Goes
<1>1. Waiters \subseteq Callers /\ Counters \subseteq Callers /\ w \notin Counters
  BY LatchAssumption DEF Callers
<1> Nobody \notin Callers
  BY LatchAssumption DEF Callers
<1>2. CASE looks(w)
  BY <1>1, <1>2 DEF looks
<1>3. CASE sleeps(w)
  BY <1>1, <1>3 DEF sleeps
<1>4. CASE spuriousWakeup(w)
  BY <1>1, <1>4 DEF spuriousWakeup
<1>5. CASE wakes(w)
  BY <1>1, <1>5 DEF wakes, LoopTest
<1> QED BY <1>2, <1>3, <1>4, <1>5

LEMMA CounterKeepsIInv ==
    ASSUME IInv, NEW c \in Counters, decrements(c) \/ notifies(c)
    PROVE  IInv'
<1> USE DEF IInv, TypeOK, Excluded, Section, Seen, Goes
<1>1. Waiters \subseteq Callers /\ Counters \subseteq Callers /\ c \notin Waiters
  BY LatchAssumption DEF Callers
<1>2. CASE decrements(c)
  \* Nobody else is in the critical section, so nobody is about to sleep.
  <2>1. \A w \in Waiters : at[w] # "closed"
    BY <1>1, <1>2 DEF decrements
  <2> QED BY <1>1, <1>2, <2>1 DEF decrements
<1>3. CASE notifies(c)
  BY <1>1, <1>3 DEF notifies, NotifyAll
<1> QED BY <1>2, <1>3

LEMMA StepKeepsIInv ==
    ASSUME IInv, [Next]_vars
    PROVE  IInv'
<1>1. CASE Next
  BY <1>1, GuardKeepsIInv, WaiterKeepsIInv, CounterKeepsIInv DEF Next
<1>2. CASE UNCHANGED vars
  BY <1>2 DEF vars, IInv, TypeOK, Excluded, Section, Seen
<1> QED BY <1>1, <1>2

LEMMA Inductive == Spec => []IInv
<1>1. Init => IInv
  BY Initially
<1>2. IInv /\ [Next]_vars => IInv'
  BY StepKeepsIInv
<1> QED BY <1>1, <1>2, PTL DEF Spec

-----------------------------------------------------------------------------
(* The code implements the latch. *)

\* What the step of a thread within its call changes of the latch: nothing,
\* as long as it does not begin or end the call, decrement or notify.
LEMMA StepWithin ==
    ASSUME TypeOK, NEW t \in Callers, NEW there, count_' = count_,
           at' = [at EXCEPT ![t] = there],
           t \in Waiters => (at[t] = "out" <=> there = "out"),
           t \in Waiters => (at[t] = "returned" <=> there = "returned"),
           t \in Counters =>
               (at[t] \in {"counted", "leaving", "unassigned", "returned"}
                  <=> there \in {"counted", "leaving", "unassigned", "returned"})
    PROVE  waiting' = waiting /\ returned' = returned /\ counted' = counted
<1>1. Waiters \subseteq Callers /\ Counters \subseteq Callers
  BY DEF Callers
<1> QED BY <1>1 DEF TypeOK, waiting, returned, counted

\* Nothing but a decrement or a notification begins or ends one.
LEMMA SameNotification ==
    ASSUME TypeOK, NEW t \in Callers, NEW there, count_' = count_,
           at' = [at EXCEPT ![t] = there],
           t \in Counters => at[t] # "counted" /\ there # "counted"
    PROVE  toBeNotified' = toBeNotified
<1>1. Counters \subseteq Callers
  BY DEF Callers
<1> QED BY <1>1 DEF TypeOK, toBeNotified

\* Of lock() and unlock(), the latch sees when a call of wait() begins and
\* when it returns.
LEMMA GuardStepIsLatchStep ==
    ASSUME IInv, NEW t \in Callers,
           \/ calls(t) \/ locks(t) \/ assignsHolder(t)
           \/ unassignsHolder(t) \/ unlocks(t)
    PROVE  [Latch!Next]_(Latch!vars)
<1> USE DEF IInv, Goes
<1>1. Waiters \subseteq Callers /\ Counters \subseteq Callers
  BY DEF Callers
<1>2. count_' = count_ /\ asleep' = asleep
  BY DEF calls, locks, assignsHolder, unassignsHolder, unlocks
<1>3. toBeNotified' = toBeNotified
  BY <1>2, SameNotification DEF calls, locks, assignsHolder, unassignsHolder, unlocks
<1>4. sleeping' = sleeping
  BY <1>2, <1>3 DEF sleeping
<1>5. CASE calls(t) /\ t \in Waiters
  <2>1. waiting' = waiting \cup {t} /\ returned' = returned /\ t \notin waiting \cup returned
    BY <1>1, <1>5 DEF calls, waiting, returned, TypeOK
  <2>2. counted' = counted
    BY <1>1, <1>5, LatchAssumption DEF calls, counted, TypeOK
  <2> QED BY <1>2, <1>4, <1>5, <2>1, <2>2 DEF Latch!Next, Latch!beginWait
<1>6. CASE unlocks(t) /\ t \in Waiters
  <2>1. /\ waiting' = waiting \ {t} /\ returned' = returned \cup {t}
        /\ t \in waiting \ sleeping
    BY <1>1, <1>6 DEF unlocks, waiting, returned, sleeping, TypeOK
  <2>2. counted' = counted
    BY <1>1, <1>6, LatchAssumption DEF unlocks, counted, TypeOK
  <2>3. ~ count_ > 0
    BY <1>6 DEF unlocks, Seen
  <2> QED BY <1>2, <1>4, <1>6, <2>1, <2>2, <2>3 DEF Latch!Next, Latch!waitReturns
<1>7. CASE ~ (t \in Waiters /\ (calls(t) \/ unlocks(t)))
  <2>1. waiting' = waiting /\ returned' = returned /\ counted' = counted
    BY <1>2, <1>7, StepWithin DEF calls, locks, assignsHolder, unassignsHolder, unlocks
  <2> QED BY <1>2, <1>4, <2>1 DEF Latch!vars
<1> QED BY <1>5, <1>6, <1>7

\* A waiter sleeps on what it has seen: it is alone in the critical section.
LEMMA WaiterStepIsLatchStep ==
    ASSUME IInv, NEW w \in Waiters,
           looks(w) \/ sleeps(w) \/ spuriousWakeup(w) \/ wakes(w)
    PROVE  [Latch!Next]_(Latch!vars)
<1> USE DEF IInv, Goes
<1>1. w \in Callers /\ w \notin Counters
  BY LatchAssumption DEF Callers
<1>2. count_' = count_
  BY DEF looks, sleeps, spuriousWakeup, wakes
<1>3. CASE looks(w) \/ wakes(w)
  <2>1. asleep' = asleep
    BY <1>3 DEF looks, wakes
  <2>2. toBeNotified' = toBeNotified
    BY <1>1, <1>2, <1>3, SameNotification DEF looks, wakes
  <2>3. waiting' = waiting /\ returned' = returned /\ counted' = counted
    BY <1>1, <1>2, <1>3, StepWithin DEF looks, wakes, LoopTest
  <2> QED BY <1>2, <2>1, <2>2, <2>3 DEF Latch!vars, sleeping
<1>4. CASE sleeps(w)
  <2>1. waiting' = waiting /\ returned' = returned /\ counted' = counted
    BY <1>1, <1>2, <1>4, StepWithin DEF sleeps
  <2>2. toBeNotified' = toBeNotified
    BY <1>1, <1>2, <1>4, SameNotification DEF sleeps
  <2>3. ~ toBeNotified
    BY <1>1, <1>4 DEF sleeps, toBeNotified, Excluded, Section, Callers
  <2>4. w \in waiting \ sleeping /\ count_ > 0 /\ sleeping' = sleeping \cup {w}
    BY <1>1, <1>4, <2>2, <2>3 DEF sleeps, sleeping, waiting, TypeOK, Seen
  <2> QED BY <1>2, <2>1, <2>4 DEF Latch!Next, Latch!waitSleeps
<1>5. CASE spuriousWakeup(w)
  <2>1. waiting' = waiting /\ returned' = returned /\ counted' = counted
    BY <1>5 DEF spuriousWakeup, waiting, returned, counted
  <2>2. toBeNotified' = toBeNotified
    BY <1>5 DEF spuriousWakeup, toBeNotified
  <2>3. CASE toBeNotified
    BY <1>2, <2>1, <2>2, <2>3 DEF sleeping, Latch!vars
  <2>4. CASE ~ toBeNotified
    <3>1. w \in sleeping /\ sleeping' = sleeping \ {w}
      BY <1>5, <2>2, <2>4 DEF spuriousWakeup, sleeping
    <3> QED BY <1>2, <2>1, <3>1 DEF Latch!Next, Latch!spuriousWakeup
  <2> QED BY <2>3, <2>4
<1> QED BY <1>3, <1>4, <1>5

\* The decrement is the countDown() of the latch, because nobody else has one
\* still to notify of; the notification is only seen to be over.
LEMMA CounterStepIsLatchStep ==
    ASSUME IInv, NEW c \in Counters, decrements(c) \/ notifies(c)
    PROVE  [Latch!Next]_(Latch!vars)
<1> USE DEF IInv, Goes
<1>1. c \in Callers /\ c \notin Waiters /\ Waiters \subseteq Callers /\ Counters \subseteq Callers
  BY LatchAssumption DEF Callers
<1>2. waiting' = waiting /\ returned' = returned
  BY <1>1 DEF decrements, notifies, waiting, returned, TypeOK
<1>3. CASE decrements(c)
  <2>1. c \notin counted /\ counted' = counted \cup {c}
    BY <1>1, <1>3 DEF decrements, counted, TypeOK
  <2>2. ~ toBeNotified
    BY <1>1, <1>3 DEF decrements, toBeNotified, Excluded, Section
  <2>3. count_' = count_ - 1 /\ asleep' = asleep /\ at'[c] = "counted"
    BY <1>1, <1>3 DEF decrements, TypeOK
  <2>4. toBeNotified' <=> count_ - 1 = 0
    BY <2>3 DEF toBeNotified
  <2>5. sleeping' = Latch!StillAsleep(count_ - 1)
    BY <2>2, <2>3, <2>4 DEF sleeping, Latch!StillAsleep
  <2> QED BY <1>2, <2>1, <2>3, <2>5 DEF Latch!Next, Latch!countDown
<1>4. CASE notifies(c)
  <2>1. counted' = counted /\ count_' = count_
    BY <1>1, <1>4 DEF notifies, counted, TypeOK
  <2>2. CASE count_ = 0
    BY <1>2, <1>4, <2>1, <2>2 DEF notifies, NotifyAll, sleeping, toBeNotified, Latch!vars
  <2>3. CASE count_ # 0
    BY <1>2, <1>4, <2>1, <2>3 DEF notifies, sleeping, toBeNotified, Latch!vars
  <2> QED BY <2>2, <2>3
<1> QED BY <1>3, <1>4

LEMMA InitIsLatchInit == Init => Latch!Init
BY DEF Init, Latch!Init, waiting, returned, counted, sleeping, Callers

LEMMA StepIsLatchStep ==
    ASSUME IInv, [Next]_vars PROVE [Latch!Next]_(Latch!vars)
<1>1. CASE Next
  BY <1>1, GuardStepIsLatchStep, WaiterStepIsLatchStep, CounterStepIsLatchStep DEF Next
<1>2. CASE UNCHANGED vars
  BY <1>2 DEF vars, Latch!vars, waiting, returned, counted, sleeping, toBeNotified
<1> QED BY <1>1, <1>2

\* The code of the latch, statement by statement, is a latch whose passes
\* through the critical section are one step each: neither the look and the
\* sleep of wait() nor the decrement and the notification of countDown() can
\* be told apart (the safety half of ImplementsLatch).
THEOREM LatchIsALatch == Spec => Latch!Spec
<1>1. Init => Latch!Init
  BY InitIsLatchInit
<1>2. IInv /\ [Next]_vars => [Latch!Next]_(Latch!vars)
  BY StepIsLatchStep
<1> QED BY <1>1, <1>2, Inductive, PTL DEF Spec, Latch!Spec

\* No wait() returns before countDown() was called count times.
THEOREM EarlyReturnImpossible == Spec => []NoEarlyReturn
BY LatchIsALatch, LatchInductive, ReturnsCounted, PTL

\* Nobody is left asleep on a latch that is open, which notifies only once.
THEOREM OpenLatchWakesAll == Spec => []NobodySleepsOnOpenLatch
<1>1. LatchInv => NobodySleepsOnOpenLatch
  BY DEF LatchInv, NobodySleepsOnOpenLatch
<1> QED BY <1>1, LatchIsALatch, LatchInductive, PTL

-----------------------------------------------------------------------------
(* Its mutex. *)

\* The same of MutexLock, whatever the threads use it for.
MutexInv ==
    /\ Mutex!TypeOK
    /\ \A t \in Callers :
         /\ mutex_ = t <=> atMutex[t] \in {"locked", "inside", "unassigned"}
         /\ holder_ = t => atMutex[t] \in {"inside", "waiting"}

LEMMA MutexInitially == Mutex!Init => MutexInv
BY LatchAssumption DEF Mutex!Init, MutexInv, Mutex!TypeOK, Mutex!Places, Callers

LEMMA MutexStepKeepsInv == MutexInv /\ [Mutex!Next]_(Mutex!vars) => MutexInv'
<1> SUFFICES ASSUME MutexInv, [Mutex!Next]_(Mutex!vars) PROVE MutexInv'
  OBVIOUS
<1> USE DEF MutexInv, Mutex!TypeOK, Mutex!Places, Mutex!Goes
<1>0. Nobody \notin Callers
  BY LatchAssumption DEF Callers
<1>1. CASE Mutex!wakeUp
  BY <1>1 DEF Mutex!wakeUp
<1>2. ASSUME NEW t \in Callers, Mutex!lock(t) PROVE MutexInv'
  BY <1>0, <1>2 DEF Mutex!lock
<1>3. ASSUME NEW t \in Callers, Mutex!assignHolder(t) PROVE MutexInv'
  BY <1>0, <1>3 DEF Mutex!assignHolder
<1>4. ASSUME NEW t \in Callers, Mutex!unassignHolder(t) PROVE MutexInv'
  BY <1>0, <1>4 DEF Mutex!unassignHolder
<1>5. ASSUME NEW t \in Callers, Mutex!unlock(t) PROVE MutexInv'
  BY <1>0, <1>5 DEF Mutex!unlock
<1>6. ASSUME NEW t \in Callers, Mutex!wait(t) PROVE MutexInv'
  BY <1>0, <1>6 DEF Mutex!wait
<1>7. ASSUME NEW t \in Callers, Mutex!waitReturns(t) PROVE MutexInv'
  BY <1>0, <1>7 DEF Mutex!waitReturns
<1>8. CASE UNCHANGED Mutex!vars
  BY <1>8 DEF Mutex!vars
<1> QED BY <1>1, <1>2, <1>3, <1>4, <1>5, <1>6, <1>7, <1>8 DEF Mutex!Next

LEMMA HolderOfMutex == Mutex!Spec => [](NoFalseClaim /\ Mutex!DestructorAssertion)
<1>1. MutexInv => NoFalseClaim /\ Mutex!DestructorAssertion
  BY DEF MutexInv, Mutex!TypeOK, NoFalseClaim, Mutex!NoFalseClaim,
         Mutex!DestructorAssertion, Mutex!isLockedByThisThread
<1> QED BY <1>1, MutexInitially, MutexStepKeepsInv, PTL DEF Mutex!Spec

LEMMA PlacesMove ==
    ASSUME TypeOK, NEW t \in Callers, NEW here, NEW there, Goes(t, here, there)
    PROVE  /\ atMutex[t] = placeAtMutex(here)
           /\ atMutex' = [atMutex EXCEPT ![t] = placeAtMutex(there)]
BY DEF TypeOK, Goes, atMutex

LEMMA StepIsMutexStep ==
    ASSUME IInv, [Next]_vars PROVE [Mutex!Next]_(Mutex!vars)
<1> USE DEF IInv, placeAtMutex
<1>1. Waiters \subseteq Callers /\ Counters \subseteq Callers
  BY DEF Callers
<1>2. ASSUME NEW t \in Callers,
             calls(t) \/ locks(t) \/ assignsHolder(t) \/ unassignsHolder(t) \/ unlocks(t)
      PROVE  [Mutex!Next]_(Mutex!vars)
  <2>1. CASE calls(t)
    <3>1. atMutex[t] = "out" /\ atMutex' = [atMutex EXCEPT ![t] = "out"]
      BY <2>1, PlacesMove DEF calls
    <3>2. atMutex' = atMutex
      BY <3>1 DEF atMutex
    <3> QED BY <2>1, <3>2 DEF calls, Mutex!vars
  <2>2. CASE locks(t)
    <3>1. atMutex[t] = "out" /\ atMutex' = [atMutex EXCEPT ![t] = "locked"]
      BY <2>2, PlacesMove DEF locks
    <3> QED BY <2>2, <3>1 DEF locks, Mutex!Next, Mutex!lock, Mutex!Goes
  <2>3. CASE assignsHolder(t)
    <3>1. atMutex[t] = "locked" /\ atMutex' = [atMutex EXCEPT ![t] = "inside"]
      BY <2>3, PlacesMove DEF assignsHolder
    <3> QED BY <2>3, <3>1 DEF assignsHolder, Mutex!Next, Mutex!assignHolder, Mutex!Goes
  <2>4. CASE unassignsHolder(t)
    <3>1. atMutex[t] = "inside" /\ atMutex' = [atMutex EXCEPT ![t] = "unassigned"]
      BY <2>4, PlacesMove DEF unassignsHolder
    <3> QED BY <2>4, <3>1 DEF unassignsHolder, Mutex!Next, Mutex!unassignHolder, Mutex!Goes
  <2>5. CASE unlocks(t)
    <3>1. atMutex[t] = "unassigned" /\ atMutex' = [atMutex EXCEPT ![t] = "out"]
      BY <2>5, PlacesMove DEF unlocks
    <3> QED BY <2>5, <3>1 DEF unlocks, Mutex!Next, Mutex!unlock, Mutex!Goes
  <2> QED BY <1>2, <2>1, <2>2, <2>3, <2>4, <2>5
<1>3. ASSUME NEW w \in Waiters, looks(w) \/ sleeps(w) \/ spuriousWakeup(w) \/ wakes(w)
      PROVE  [Mutex!Next]_(Mutex!vars)
  <2>1. CASE looks(w)
    <3>1. atMutex[w] = "inside" /\ atMutex' = [atMutex EXCEPT ![w] = "inside"]
      BY <1>1, <2>1, PlacesMove DEF looks
    <3>2. atMutex' = atMutex
      BY <3>1 DEF atMutex
    <3> QED BY <2>1, <3>2 DEF looks, Mutex!vars
  <2>2. CASE sleeps(w)
    <3>1. atMutex[w] = "inside" /\ atMutex' = [atMutex EXCEPT ![w] = "waiting"]
      BY <1>1, <2>2, PlacesMove DEF sleeps
    <3> QED BY <1>1, <2>2, <3>1 DEF sleeps, Mutex!Next, Mutex!wait, Mutex!Goes
  <2>3. CASE spuriousWakeup(w)
    <3>1. {w} \in SUBSET asleep /\ {w} # {} /\ asleep' = asleep \ {w} /\ atMutex' = atMutex
      BY <2>3 DEF spuriousWakeup, atMutex
    <3> QED BY <2>3, <3>1 DEF spuriousWakeup, Mutex!Next, Mutex!wakeUp
  <2>4. CASE wakes(w)
    <3>1. atMutex[w] = "waiting" /\ atMutex' = [atMutex EXCEPT ![w] = "inside"]
      BY <1>1, <2>4, PlacesMove DEF wakes, LoopTest
    <3> QED BY <1>1, <2>4, <3>1 DEF wakes, Mutex!Next, Mutex!waitReturns, Mutex!Goes
  <2> QED BY <1>3, <2>1, <2>2, <2>3, <2>4
<1>4. ASSUME NEW c \in Counters, decrements(c) \/ notifies(c)
      PROVE  [Mutex!Next]_(Mutex!vars)
  <2>1. atMutex[c] = "inside" /\ atMutex' = [atMutex EXCEPT ![c] = "inside"]
    BY <1>1, <1>4, PlacesMove DEF decrements, notifies
  <2>2. atMutex' = atMutex
    BY <2>1 DEF atMutex
  <2>3. CASE asleep' = asleep
    BY <1>4, <2>2, <2>3 DEF decrements, notifies, Mutex!vars
  <2>4. CASE asleep' # asleep
    \* notifyAll() wakes all the sleepers at once.
    <3>1. notifies(c) /\ asleep' = {} /\ asleep # {}
      BY <1>4, <2>4 DEF decrements, notifies, NotifyAll
    <3>2. asleep \in SUBSET asleep /\ asleep' = asleep \ asleep
      BY <3>1
    <3> QED BY <2>2, <3>1, <3>2 DEF notifies, Mutex!Next, Mutex!wakeUp
  <2> QED BY <2>3, <2>4
<1>5. CASE UNCHANGED vars
  BY <1>5 DEF vars, Mutex!vars, atMutex
<1> QED BY <1>2, <1>3, <1>4, <1>5 DEF Next

\* A thread outside lock() .. unlock() is never taken for the holder of the
\* latch's mutex, although wait() leaves holder_ to whoever assigns it next;
\* nor of any other MutexLock, whose steps those of the latch are.
THEOREM HolderIsNeverOutside == Spec => []NoFalseClaim
<1>1. Init => Mutex!Init
  BY DEF Init, Mutex!Init, atMutex, placeAtMutex
<1>2. IInv /\ [Next]_vars => [Mutex!Next]_(Mutex!vars)
  BY StepIsMutexStep
<1>3. Spec => Mutex!Spec
  BY <1>1, <1>2, Inductive, PTL DEF Spec, Mutex!Spec
<1> QED BY <1>3, HolderOfMutex, PTL

\* From its lock() to its unlock(), but for condition_.wait(), a thread is
\* alone: the critical sections of a latch exclude each other, also those
\* that wait() takes up again behind the back of MutexLock.
THEOREM SectionsExclude ==
    Spec => [](\A t, u \in Callers :
               at[t] \in Section /\ at[u] \in Section => t = u)
<1>1. IInv => \A t, u \in Callers : at[t] \in Section /\ at[u] \in Section => t = u
  BY DEF IInv, Excluded
<1> QED BY <1>1, Inductive, PTL
=============================================================================
