----------------------------- MODULE ThreadPool -----------------------------
(***************************************************************************)
(* ThreadPool (asynlog/ThreadPool.cc): the owner start()s the workers and  *)
(* stop()s the pool, clients execute() tasks.  Workers look for a task in  *)
(* timeTake(), leave after two seconds without one, and keep mutex_ while  *)
(* they run a task.  execute() and each pass of a waiting loop runs under  *)
(* mutex_ and is one action, possible only while mutex_ is free.           *)
(*                                                                         *)
(* A task is its number in the order of the execute() calls; all are       *)
(* callable (an empty one would end its worker).  It returns in the end,   *)
(* or calls execute() itself and waits for the mutex_ its own worker       *)
(* holds.                                                                  *)
(***************************************************************************)
EXTENDS Integers, Sequences, FiniteSets

CONSTANTS
    Workers,    \* the threads the constructor is told to make
    Clients,    \* the threads that call execute()
    size_,      \* the capacity of queue_
    Free,       \* mutex_ when nobody runs a task
    MaxTasks    \* bound: the tasks of a behaviour

ASSUME PoolAssumption ==
    /\ IsFiniteSet(Workers) /\ IsFiniteSet(Clients)
    /\ size_ \in Nat \ {0}
    /\ Free \notin Workers
    /\ MaxTasks \in Nat

VARIABLES
    queue_, threads_,
    mutex_,     \* Free, or the worker that runs a task
    notEmpty_, notFull_, notFinish_,   \* the threads asleep in each
    vector_,    \* the workers for which start() has made a Thread
    at,         \* where each worker is
    job,        \* task in runInThread(): what each worker runs, or NoTask
    client,     \* "out" or in "execute"
    owner,
    executed,   \* history: tasks accepted so far
    done        \* history: tasks that have returned, in that order

condVars == <<notEmpty_, notFull_, notFinish_>>
histVars == <<executed, done>>
vars == <<queue_, threads_, mutex_, condVars, vector_, at, job, client, owner, histVars>>

NoTask == 0

Init ==
    /\ queue_ = <<>> /\ threads_ = Cardinality(Workers)
    /\ mutex_ = Free
    /\ notEmpty_ = {} /\ notFull_ = {} /\ notFinish_ = {}
    /\ vector_ = {} /\ at = [w \in Workers |-> "none"]
    /\ job = [w \in Workers |-> NoTask]
    /\ client = [c \in Clients |-> "out"]
    /\ owner = "new"
    /\ executed = 0 /\ done = <<>>

NotifyNobody(cond) == {cond}   \* (mutation: the notification is forgotten)

\* notify(): one of the sleepers, if there are any, is taken out.
Notify(cond) == IF cond = {} THEN {{}} ELSE {cond \ {t} : t \in cond}

Moves(w, place) == at' = [at EXCEPT ![w] = place]

-----------------------------------------------------------------------------
(* The owner: start(), stop(). *)

start ==
    /\ owner = "new"
    /\ owner' = "starting"
    /\ UNCHANGED <<queue_, threads_, mutex_, condVars, vector_, at, job, client, histVars>>

\* One round of the loop.  threads_ is read without mutex_: a worker already
\* started may have lowered it.  When pthread_create fails, Thread::start()
\* returns all the same and the worker never runs.
spawn(w) ==
    /\ owner = "starting" /\ w \notin vector_
    /\ Cardinality(vector_) < threads_
    /\ vector_' = vector_ \cup {w}
    /\ Moves(w, "lock") \/ UNCHANGED at
    /\ UNCHANGED <<queue_, threads_, mutex_, condVars, job, client, owner, histVars>>

startReturns ==
    /\ owner = "starting" /\ ~ Cardinality(vector_) < threads_
    /\ owner' = "started"
    /\ UNCHANGED <<queue_, threads_, mutex_, condVars, vector_, at, job, client, histVars>>

\* running_ = false, which no worker ever looks at.
stop ==
    /\ owner = "started"
    /\ owner' = "finish"
    /\ UNCHANGED <<queue_, threads_, mutex_, condVars, vector_, at, job, client, histVars>>

stopWaits ==
    /\ owner = "finish" /\ mutex_ = Free /\ threads_ > 0
    /\ owner' = "finishing" /\ notFinish_' = {"owner"}
    /\ UNCHANGED <<queue_, threads_, mutex_, notEmpty_, notFull_, vector_, at,
                   job, client, histVars>>

stopWoken ==
    /\ owner = "finishing" /\ notFinish_ = {}
    /\ owner' = "finish"
    /\ UNCHANGED <<queue_, threads_, mutex_, condVars, vector_, at, job, client, histVars>>

stopJoins ==
    /\ owner = "finish" /\ mutex_ = Free /\ ~ threads_ > 0
    /\ owner' = "join"
    /\ UNCHANGED <<queue_, threads_, mutex_, condVars, vector_, at, job, client, histVars>>

\* Thread::join() of every worker; its assertion aborts for one never created.
stopReturns ==
    /\ owner = "join"
    /\ \/ (\A w \in vector_ : at[w] = "exited") /\ owner' = "stopped"
       \/ (\E w \in vector_ : at[w] = "none") /\ owner' = "aborted"
    /\ UNCHANGED <<queue_, threads_, mutex_, condVars, vector_, at, job, client, histVars>>

-----------------------------------------------------------------------------
(* The clients: execute(). *)

Executing == {c \in Clients : client[c] = "execute"}

beginExecute(c) ==
    /\ client[c] = "out"
    /\ executed + Cardinality(Executing) < MaxTasks
    /\ client' = [client EXCEPT ![c] = "execute"]
    /\ UNCHANGED <<queue_, threads_, mutex_, condVars, vector_, at, job, owner, histVars>>

Full == Len(queue_) = size_

executeWaits(c) ==
    /\ client[c] = "execute" /\ c \notin notFull_ /\ mutex_ = Free
    /\ Full
    /\ notFull_' = notFull_ \cup {c}
    /\ UNCHANGED <<queue_, threads_, mutex_, notEmpty_, notFinish_, vector_, at,
                   job, client, owner, histVars>>

execute(c) ==
    /\ client[c] = "execute" /\ c \notin notFull_ /\ mutex_ = Free
    /\ ~ Full
    /\ executed' = executed + 1
    /\ queue_' = Append(queue_, executed + 1)
    /\ notEmpty_' \in Notify(notEmpty_)
    /\ client' = [client EXCEPT ![c] = "out"]
    /\ UNCHANGED <<threads_, mutex_, notFull_, notFinish_, vector_, at, job, owner,
                   done>>

-----------------------------------------------------------------------------
(* The workers: runInThread() and timeTake(). *)

Popped(queue) == Tail(queue)

UnlocksFirst(w) == Free   \* (mutation: mutex_.unlock() before task())

\* Who has mutex_ while w runs its task.
LockedBy(w) == w

\* The end of timeTake() with a task to take, and the call of the task.
TakesTask(w) ==
    /\ queue_ # <<>>
    /\ queue_' = Popped(queue_)
    /\ notFull_' \in Notify(notFull_)
    /\ job' = [job EXCEPT ![w] = Head(queue_)]
    /\ mutex_' = LockedBy(w)
    /\ Moves(w, "task")

takeWaits(w) ==
    /\ at[w] = "lock" /\ mutex_ = Free /\ queue_ = <<>>
    /\ notEmpty_' = notEmpty_ \cup {w}
    /\ Moves(w, "wait")
    /\ UNCHANGED <<queue_, threads_, mutex_, notFull_, notFinish_, vector_,
                   job, client, owner, histVars>>

take(w) ==
    /\ at[w] = "lock" /\ mutex_ = Free
    /\ TakesTask(w)
    /\ UNCHANGED <<threads_, notEmpty_, notFinish_, vector_, client, owner, histVars>>

\* timeWait() returns false: notified, or for no reason.
takeWoken(w) ==
    /\ at[w] = "wait" /\ w \notin notEmpty_
    /\ Moves(w, "lock")
    /\ UNCHANGED <<queue_, threads_, mutex_, condVars, vector_, job, client, owner, histVars>>

\* The two seconds are over before any notification; mutex_ is to be regained.
takeTimesOut(w) ==
    /\ at[w] = "wait" /\ w \in notEmpty_
    /\ notEmpty_' = notEmpty_ \ {w}
    /\ Moves(w, "timedOut")
    /\ UNCHANGED <<queue_, threads_, mutex_, notFull_, notFinish_, vector_,
                   job, client, owner, histVars>>

CountKept(n) == n   \* (mutation: threads_ not lowered)
CountLowered(n) == n - 1

takeLeaves(w) ==   \* (mutation: return right after the decrement)
    /\ at[w] = "timedOut" /\ mutex_ = Free
    /\ threads_' = CountLowered(threads_)
    /\ notFinish_' \in Notify(notFinish_)
    /\ Moves(w, "exited")
    /\ UNCHANGED <<queue_, mutex_, notEmpty_, notFull_, vector_, job, client, owner,
                   histVars>>

\* timeWait() returns true: threads_ is lowered before queue_ is looked at.
\* A task that has come meanwhile is run all the same, and the worker goes on.
takeGivesUp(w) ==
    /\ at[w] = "timedOut" /\ mutex_ = Free
    /\ threads_' = CountLowered(threads_)
    /\ notFinish_' \in Notify(notFinish_)
    /\ \/ TakesTask(w)
       \/ /\ queue_ = <<>>
          /\ Moves(w, "exited")
          /\ UNCHANGED <<queue_, notFull_, mutex_, job>>
    /\ UNCHANGED <<notEmpty_, vector_, client, owner, histVars>>

\* The task returns, and mutex_ is unlocked.
taskReturns(w) ==
    /\ at[w] = "task"
    /\ done' = Append(done, job[w])
    /\ job' = [job EXCEPT ![w] = NoTask]
    /\ mutex_' = Free
    /\ Moves(w, "lock")
    /\ UNCHANGED <<queue_, threads_, condVars, vector_, client, owner, executed>>

\* The task calls execute(), whose lock() never returns.
taskCallsPool(w) ==
    /\ at[w] = "task"
    /\ Moves(w, "stuck")
    /\ UNCHANGED <<queue_, threads_, mutex_, condVars, vector_, job, client, owner, histVars>>

spuriousWakeup ==
    /\ \E t \in notEmpty_ \cup notFull_ \cup notFinish_ :
         /\ notEmpty_' = notEmpty_ \ {t}
         /\ notFull_' = notFull_ \ {t}
         /\ notFinish_' = notFinish_ \ {t}
    /\ UNCHANGED <<queue_, threads_, mutex_, vector_, at, job, client, owner, histVars>>

-----------------------------------------------------------------------------
OwnerSteps ==
    \/ \E w \in Workers : spawn(w)
    \/ startReturns \/ stopWaits \/ stopWoken \/ stopJoins \/ stopReturns

ClientSteps == \E c \in Clients : executeWaits(c) \/ execute(c)

WorkerSteps ==
    \E w \in Workers :
        \/ takeWaits(w) \/ take(w) \/ takeWoken(w) \/ takeTimesOut(w)
        \/ takeGivesUp(w) \/ taskReturns(w)

Next ==
    \/ start \/ stop \/ OwnerSteps
    \/ (\E c \in Clients : beginExecute(c)) \/ ClientSteps
    \/ WorkerSteps \/ (\E w \in Workers : taskCallsPool(w))
    \/ spuriousWakeup

Spec == Init /\ [][Next]_vars

\* mutex_ is given to somebody who asks for it, calls that have begun go on,
\* tasks that are not stuck return, and waits of two seconds end.  A wakeup
\* for no reason starts the two seconds anew, so there must be an end to those.
Fairness ==
    /\ WF_vars(OwnerSteps) /\ WF_vars(ClientSteps) /\ WF_vars(WorkerSteps)
    /\ <>[][~ spuriousWakeup]_vars

FairSpec == Spec /\ Fairness

-----------------------------------------------------------------------------
(* Properties. *)

Places == {"none", "lock", "wait", "timedOut", "task", "stuck", "exited"}

\* Every variable keeps its type; queue_ never exceeds size_, and whoever is
\* asleep in a condition variable is in the call that waits for it.
TypeOK ==
    /\ queue_ \in Seq(Nat) /\ Len(queue_) <= size_
    /\ threads_ \in Int
    /\ mutex_ \in Workers \cup {Free}
    /\ vector_ \subseteq Workers
    /\ at \in [Workers -> Places]
    /\ job \in [Workers -> Nat]
    /\ client \in [Clients -> {"out", "execute"}]
    /\ owner \in {"new", "starting", "started", "finish", "finishing",
                  "join", "stopped", "aborted"}
    /\ notEmpty_ \subseteq {w \in Workers : at[w] = "wait"}
    /\ notFull_ \subseteq Executing
    /\ notFinish_ \subseteq {o \in {"owner"} : owner = "finishing"}
    /\ executed \in Nat /\ done \in Seq(Nat)

Alive == {w \in Workers : at[w] \notin {"none", "exited"}}

\* While a worker sleeps, as many are awake as there are tasks, and while a
\* client sleeps, as many clients are awake as there are free places: one
\* notification for each is enough, whichever worker times out meanwhile.
NobodySleepsOn ==
    /\ notEmpty_ # {} => Len(queue_) <= Cardinality(Alive \ notEmpty_)
    /\ notFull_ # {} => size_ - Len(queue_) <= Cardinality(Executing \ notFull_)

\* Tasks run one at a time, whichever workers run them: each starts when all
\* that were accepted before it have returned, and none is run twice or left
\* out, although workers leave and come back with their two seconds over.
RunInOrder ==
    LET Numbers == [k \in 1 .. executed |-> k]
    IN  \/ /\ \A w \in Workers : job[w] = NoTask
           /\ done \o queue_ = Numbers
        \/ \E w \in Workers :
             /\ \A v \in Workers \ {w} : job[v] = NoTask
             /\ done \o <<job[w]>> \o queue_ = Numbers

\* The one thing that blocks the pool: a task that waits for its own worker.
Stuck == \E w \in Workers : at[w] = "stuck"

\* A task accepted while a worker is there is run and returns, even if that
\* worker's two seconds end at that very moment, unless a task called the
\* pool.  (With no worker left it never is.)
QueuedTaskRuns ==
    \A k \in 1 .. MaxTasks :
        (k <= executed /\ Alive # {}) ~> (k <= Len(done) \/ Stuck)

\* While a client sleeps on a full queue and a worker is there, one more task
\* is accepted: no worker leaves a full queue behind, so execute() can wait
\* for ever only once all of them had gone before, or a task called the pool.
FullQueueMoves ==
    \A k \in 1 .. MaxTasks :
        (executed = k /\ notFull_ # {} /\ Alive # {}) ~> (executed > k \/ Stuck)

\* stop() returns when every worker was created, whatever timed out before,
\* unless a task called the pool.
StopReturns ==
    (owner = "finish" /\ \A w \in Workers : at[w] # "none")
      ~> (owner = "stopped" \/ Stuck)
=============================================================================
