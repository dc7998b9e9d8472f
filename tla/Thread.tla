------------------------------- MODULE Thread -------------------------------
(***************************************************************************)
(* Thread (asynlog/Thread.cc): objects that start, join or abandon a       *)
(* pthread.  The new thread gets pointers to tid_ and latch_ inside the    *)
(* object (ThreadData), and writes through them while the creator waits in *)
(* start().  Each object is used by one owner, who may join it or not, and *)
(* destroys it in the end.                                                 *)
(***************************************************************************)
EXTENDS Integers, FiniteSets

CONSTANT Objects    \* the Thread objects

VARIABLES
    started_, joined_,
    tid_,       \* 0, or the number of the kernel's thread
    latch_,     \* latch_'s count
    owner,      \* where the owner of each object is
    thread,     \* where its pthread is
    handle      \* what has become of pthreadId_: still to be joined or not

vars == <<started_, joined_, tid_, latch_, owner, thread, handle>>

\* Thread(func, name)
Init ==
    /\ started_ = [o \in Objects |-> FALSE]
    /\ joined_ = [o \in Objects |-> FALSE]
    /\ tid_ = [o \in Objects |-> 0]
    /\ latch_ = [o \in Objects |-> 1]
    /\ owner = [o \in Objects |-> "idle"]
    /\ thread = [o \in Objects |-> "none"]
    /\ handle = [o \in Objects |-> "none"]

OwnerGoes(o, place) == owner' = [owner EXCEPT ![o] = place]
ThreadGoes(o, place) == thread' = [thread EXCEPT ![o] = place]

-----------------------------------------------------------------------------
(* The owner. *)

StartWithoutWait(o) == "started"   \* (mutation: no latch_.wait())

\* Where start() goes on once the pthread exists.
AfterCreate(o) == "wait"

start(o) ==
    /\ owner[o] \in {"idle", "failed"} /\ ~ started_[o]
    /\ started_' = [started_ EXCEPT ![o] = TRUE]
    /\ handle' = [handle EXCEPT ![o] = "joinable"]
    /\ OwnerGoes(o, AfterCreate(o)) /\ ThreadGoes(o, "born")
    /\ UNCHANGED <<joined_, tid_, latch_>>

\* pthread_create fails: started_ is set and reset, ThreadData is deleted,
\* and start() may be called again.
startFails(o) ==
    /\ owner[o] \in {"idle", "failed"} /\ ~ started_[o]
    /\ OwnerGoes(o, "failed")
    /\ UNCHANGED <<started_, joined_, tid_, latch_, thread, handle>>

\* latch_.wait() returns.
startReturns(o) ==
    /\ owner[o] = "wait" /\ ~ latch_[o] > 0
    /\ OwnerGoes(o, "started")
    /\ UNCHANGED <<started_, joined_, tid_, latch_, thread, handle>>

join(o) ==
    /\ owner[o] = "started" /\ started_[o] /\ ~ joined_[o]
    /\ joined_' = [joined_ EXCEPT ![o] = TRUE]
    /\ OwnerGoes(o, "join")
    /\ UNCHANGED <<started_, tid_, latch_, thread, handle>>

joinReturns(o) ==
    /\ owner[o] = "join" /\ thread[o] = "ended"
    /\ handle' = [handle EXCEPT ![o] = "joined"]
    /\ OwnerGoes(o, "joined")
    /\ UNCHANGED <<started_, joined_, tid_, latch_, thread>>

DetachStarted(o) == started_[o]   \* (mutation)

NeverDetaches(o) == FALSE         \* (mutation)

\* if (started_ && !joined_) pthread_detach(pthreadId_)
Detaches(o) == started_[o] /\ ~ joined_[o]

\* ~Thread()
destroy(o) ==
    /\ owner[o] \in {"idle", "failed", "started", "joined"}
    /\ handle' = [handle EXCEPT ![o] = IF Detaches(o) THEN "detached" ELSE @]
    /\ OwnerGoes(o, "destroyed")
    /\ UNCHANGED <<started_, joined_, tid_, latch_, thread>>

-----------------------------------------------------------------------------
(* The pthread: startThread(), ThreadData::runInThread(). *)

\* *tid_ = gettid()
storeTid(o) ==
    /\ thread[o] = "born"
    /\ tid_' = [tid_ EXCEPT ![o] = 1]
    /\ ThreadGoes(o, "hasTid")
    /\ UNCHANGED <<started_, joined_, latch_, owner, handle>>

countDown(o) ==
    /\ thread[o] = "hasTid"
    /\ latch_' = [latch_ EXCEPT ![o] = @ - 1]
    /\ ThreadGoes(o, "func")
    /\ UNCHANGED <<started_, joined_, tid_, owner, handle>>

\* func_(), ThreadData's own copy, returns and ThreadData is deleted.  (An
\* exception aborts the process.)
funcReturns(o) ==
    /\ thread[o] = "func"
    /\ ThreadGoes(o, "ended")
    /\ UNCHANGED <<started_, joined_, tid_, latch_, owner, handle>>

Owner(o) ==
    start(o) \/ startFails(o) \/ startReturns(o) \/ join(o) \/ joinReturns(o)
      \/ destroy(o)

Pthread(o) == storeTid(o) \/ countDown(o) \/ funcReturns(o)

Next == \E o \in Objects : Owner(o) \/ Pthread(o)

Spec == Init /\ [][Next]_vars

-----------------------------------------------------------------------------
(* Properties. *)

\* Every variable keeps its type.
TypeOK ==
    /\ started_ \in [Objects -> BOOLEAN] /\ joined_ \in [Objects -> BOOLEAN]
    /\ tid_ \in [Objects -> Nat] /\ latch_ \in [Objects -> 0 .. 1]
    /\ owner \in [Objects -> {"idle", "wait", "failed", "started", "join",
                              "joined", "destroyed"}]
    /\ thread \in [Objects -> {"none", "born", "hasTid", "func", "ended"}]
    /\ handle \in [Objects -> {"none", "joinable", "joined", "detached"}]

\* The thread never writes through tid_ or latch_ into a destroyed object,
\* though it is free to outlive the object.
PointersAlive ==
    \A o \in Objects : thread[o] \in {"born", "hasTid"} => owner[o] # "destroyed"

\* start()'s assertion: when the latch lets it go on, tid_ is there.
TidIsKnown ==
    \A o \in Objects : owner[o] \in {"started", "join", "joined"} => tid_[o] > 0

\* A pthread is joined or detached, and never both; and one that was never
\* created, because start() failed, is neither.
ReleasedOnce ==
    [][\A o \in Objects :
          /\ handle[o] \in {"joined", "detached"} => handle'[o] = handle[o]
          /\ handle[o] = "none" => handle'[o] \notin {"joined", "detached"}]_vars

\* No pthread is left behind joinable when its object is gone.
NoHandleLeaks == \A o \in Objects : owner[o] = "destroyed" => handle[o] # "joinable"
=============================================================================
