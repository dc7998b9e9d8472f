--------------------------- MODULE BlockingQueue ---------------------------
(***************************************************************************)
(* BlockingQueue<T> (asynlog/BlockingQueue.h): put() and take() over a     *)
(* deque without a limit, a mutex and one condition variable.  As in       *)
(* BoundedBlockingQueue a step is one pass through a critical section; a   *)
(* thread with a call under way that does not sleep is waiting for mutex_. *)
(* It is also what a bounded queue promises to those who take from it.     *)
(***************************************************************************)
EXTENDS Naturals, Sequences

CONSTANT Threads

VARIABLES
    queue_,     \* the elements, numbered in the order they were put
    call,       \* the call each thread is in, or "none"
    notEmpty_,  \* the threads asleep in notEmpty_
    puts        \* history: elements put so far

vars == <<queue_, call, notEmpty_, puts>>

Init ==
    /\ queue_ = <<>>
    /\ call = [t \in Threads |-> "none"]
    /\ notEmpty_ = {}
    /\ puts = 0

Ready(t) == call[t] # "none" /\ t \notin notEmpty_

Calls(t, c) == call' = [call EXCEPT ![t] = c]

\* Condition::notify()
NotifyOne ==
    IF notEmpty_ = {} THEN UNCHANGED notEmpty_
    ELSE \E t \in notEmpty_ : notEmpty_' = notEmpty_ \ {t}

begin(t) ==
    /\ call[t] = "none"
    /\ Calls(t, "put") \/ Calls(t, "take")
    /\ UNCHANGED <<queue_, notEmpty_, puts>>

put(t) ==
    /\ Ready(t) /\ call[t] = "put"
    /\ puts' = puts + 1
    /\ queue_' = Append(queue_, puts + 1)
    /\ NotifyOne
    /\ Calls(t, "none")

takeWaits(t) ==
    /\ Ready(t) /\ call[t] = "take" /\ queue_ = <<>>
    /\ notEmpty_' = notEmpty_ \cup {t}
    /\ UNCHANGED <<queue_, call, puts>>

take(t) ==
    /\ Ready(t) /\ call[t] = "take" /\ queue_ # <<>>
    /\ queue_' = Tail(queue_)
    /\ Calls(t, "none")
    /\ UNCHANGED <<notEmpty_, puts>>

spuriousWakeup(t) ==
    /\ t \in notEmpty_
    /\ notEmpty_' = notEmpty_ \ {t}
    /\ UNCHANGED <<queue_, call, puts>>

Next ==
    \E t \in Threads :
        begin(t) \/ put(t) \/ takeWaits(t) \/ take(t) \/ spuriousWakeup(t)

Spec == Init /\ [][Next]_vars

\* A consumer that is awake gets mutex_ in the end.
FairSpec == Spec /\ \A t \in Threads : WF_vars(takeWaits(t) \/ take(t))
=============================================================================
