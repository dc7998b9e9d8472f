------------------------ MODULE BoundedBlockingQueue ------------------------
(***************************************************************************)
(* BoundedBlockingQueue<T> (asynlog/BoundedBlockingQueue.h): put(), take() *)
(* and timeTake() of any number of threads, over a mutex and the condition *)
(* variables notEmpty_ and notFull_.  A thread with a call under way that  *)
(* sleeps in neither of them is ready: it is waiting for mutex_, and its   *)
(* next step is one pass through its critical section, up to the return or *)
(* to the next wait.  A sleeper is made ready by a notification, by its    *)
(* timeout in timeTake(), or spuriously.                                   *)
(***************************************************************************)
EXTENDS Integers, Sequences, FiniteSets

CONSTANTS
    Threads,
    maxSize_,
    MaxPuts     \* bound: elements put in a behaviour

ASSUME QueueAssumption ==
    /\ IsFiniteSet(Threads)
    /\ maxSize_ \in Nat \ {0}
    /\ MaxPuts \in Nat

VARIABLES
    queue_,     \* the elements, numbered in the order they were put
    call,       \* the call each thread is in, or "none"
    notEmpty_,  \* the threads asleep in notEmpty_
    notFull_,   \* the threads asleep in notFull_
    puts,       \* history: elements put so far
    taken       \* history: elements taken so far

vars == <<queue_, call, notEmpty_, notFull_, puts, taken>>

Takes == {"take", "timeTake"}

Init ==
    /\ queue_ = <<>>
    /\ call = [t \in Threads |-> "none"]
    /\ notEmpty_ = {} /\ notFull_ = {}
    /\ puts = 0 /\ taken = 0

Ready(t) == call[t] # "none" /\ t \notin notEmpty_ \cup notFull_

NotifyNobody(cond) == {cond}   \* (mutation: the notification is forgotten)

\* notify(): one of the sleepers is taken out, if there are any.
Notify(cond) == IF cond = {} THEN {{}} ELSE {cond \ {t} : t \in cond}

Returns(t) == call' = [call EXCEPT ![t] = "none"]

begin(t) ==
    /\ call[t] = "none"
    /\ \E c \in {"put"} \cup Takes :
         /\ c = "put" => puts + Cardinality({u \in Threads : call[u] = "put"}) < MaxPuts
         /\ call' = [call EXCEPT ![t] = c]
    /\ UNCHANGED <<queue_, notEmpty_, notFull_, puts, taken>>

FullAboveMaxSize == Len(queue_) = maxSize_ + 1   \* (mutation)
Full == Len(queue_) = maxSize_

putWaits(t) ==
    /\ Ready(t) /\ call[t] = "put" /\ Full
    /\ notFull_' = notFull_ \cup {t}
    /\ UNCHANGED <<queue_, call, notEmpty_, puts, taken>>

put(t) ==
    /\ Ready(t) /\ call[t] = "put" /\ ~ Full
    /\ puts' = puts + 1
    /\ queue_' = Append(queue_, puts + 1)
    /\ notEmpty_' \in Notify(notEmpty_)
    /\ Returns(t)
    /\ UNCHANGED <<notFull_, taken>>

takeWaits(t) ==
    /\ Ready(t) /\ call[t] \in Takes /\ queue_ = <<>>
    /\ notEmpty_' = notEmpty_ \cup {t}
    /\ UNCHANGED <<queue_, call, notFull_, puts, taken>>

\* take(), and timeTake(): the test after its loop always finds an element.
take(t) ==
    /\ Ready(t) /\ call[t] \in Takes /\ queue_ # <<>>
    /\ taken' = taken + 1
    /\ queue_' = Tail(queue_)
    /\ notFull_' \in Notify(notFull_)
    /\ Returns(t)
    /\ UNCHANGED <<notEmpty_, puts>>

\* sec seconds are over: timeTake()'s loop does not look at why it woke up.
timeTakeExpires(t) ==
    /\ t \in notEmpty_ /\ call[t] = "timeTake"
    /\ notEmpty_' = notEmpty_ \ {t}
    /\ UNCHANGED <<queue_, call, notFull_, puts, taken>>

spuriousWakeup(t) ==
    /\ t \in notEmpty_ \cup notFull_
    /\ notEmpty_' = notEmpty_ \ {t} /\ notFull_' = notFull_ \ {t}
    /\ UNCHANGED <<queue_, call, puts, taken>>

Pass(t) == putWaits(t) \/ put(t) \/ takeWaits(t) \/ take(t)

Next ==
    \E t \in Threads :
        begin(t) \/ Pass(t) \/ timeTakeExpires(t) \/ spuriousWakeup(t)

Spec == Init /\ [][Next]_vars

\* A ready thread gets mutex_ in the end and a timed wait ends; nobody has to
\* begin a call, and no wakeup has to be spurious.
Fairness == \A t \in Threads : WF_vars(Pass(t)) /\ WF_vars(timeTakeExpires(t))

FairSpec == Spec /\ Fairness

-----------------------------------------------------------------------------
(* Properties. *)

\* Every variable keeps its type, put()'s assertion among it; only a thread
\* in put() sleeps in notFull_, only one in a take sleeps in notEmpty_.
TypeOK ==
    /\ queue_ \in Seq(Nat) /\ Len(queue_) <= maxSize_
    /\ call \in [Threads -> {"none", "put"} \cup Takes]
    /\ notEmpty_ \subseteq {t \in Threads : call[t] \in Takes}
    /\ notFull_ \subseteq {t \in Threads : call[t] = "put"}
    /\ puts \in Nat /\ taken \in Nat

ReadyTakers == {t \in Threads : call[t] \in Takes /\ t \notin notEmpty_}
ReadyPutters == {t \in Threads : call[t] = "put" /\ t \notin notFull_}

\* While a consumer sleeps, there are at least as many consumers awake as
\* elements: no notification of put() is lost on a thread that needs none.
NoElementSleptOn ==
    notEmpty_ # {} => Len(queue_) <= Cardinality(ReadyTakers)

\* While a producer sleeps, there are at least as many producers awake as
\* free places.
NoPlaceSleptOn ==
    notFull_ # {} => maxSize_ - Len(queue_) <= Cardinality(ReadyPutters)

\* The element at the head is taken once somebody is in take() or timeTake(),
\* whether asleep or not.
HeadIsTaken ==
    \A e \in 1 .. MaxPuts :
        (queue_ # <<>> /\ Head(queue_) = e /\ \E t \in Threads : call[t] \in Takes)
            ~> (taken >= e)

\* To those who take, it is a queue without a limit: a full queue only keeps a
\* producer in put(), and a timed wait is a wait that wakes for no reason.
\* The consumers' fairness carries over.
Unbounded == INSTANCE BlockingQueue WITH
    call <- [t \in Threads |-> IF call[t] = "timeTake" THEN "take" ELSE call[t]]
ImplementsUnbounded == Unbounded!FairSpec

\* timeTake() comes back, with or without an element: "no more data put into
\* queue and we don't want to wait" (BoundedBlockingQueue.h:57).
TimeTakeReturns ==
    \A t \in Threads : (call[t] = "timeTake") ~> (call[t] = "none")
=============================================================================
