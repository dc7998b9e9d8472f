-------------------------- MODULE ThreadPoolProofs --------------------------
(***************************************************************************)
(* Theorems of ThreadPool, for any numbers of workers and clients and any  *)
(* capacity of the queue: the variables keep their types, no notification  *)
(* is lost on a thread that needs none, and tasks run one after the other  *)
(* in the order of the execute() calls.                                    *)
(***************************************************************************)
EXTENDS ThreadPool, SequenceTheorems, FiniteSetTheorems, TLAPS

\* A worker start() has not come to is nowhere in the pool.
Unspawned == \A w \in Workers \ vector_ : at[w] = "none"

\* Who runs a task, or is stuck in one, is who has mutex_.
TaskLocked ==
    \A w \in Workers :
        /\ job[w] # NoTask => mutex_ = w
        /\ job[w] # NoTask <=> at[w] \in {"task", "stuck"}

IInv == TypeOK /\ Unspawned /\ NobodySleepsOn /\ TaskLocked /\ RunInOrder

-----------------------------------------------------------------------------
(* The queue and the conditions. *)

LEMMA NotifyShrinks == ASSUME NEW cond, NEW after \in Notify(cond) PROVE after \subseteq cond
BY DEF Notify

\* notify() leaves an empty condition as it is, and takes exactly one thread
\* out of any other.
LEMMA NotifyTakesOne ==
    ASSUME NEW cond, cond # {}, NEW after \in Notify(cond)
    PROVE  \E t \in cond : after = cond \ {t}
BY DEF Notify

LEMMA TakesTaskFacts ==
    ASSUME TypeOK, NEW w \in Workers, TakesTask(w)
    PROVE  /\ queue_' \in Seq(Nat) /\ Len(queue_') = Len(queue_) - 1
           /\ notFull_' \subseteq notFull_
           /\ job' \in [Workers -> Nat] /\ mutex_' = w
           /\ at' = [at EXCEPT ![w] = "task"]
<1>1. queue_ \in Seq(Nat) /\ queue_ # <<>> /\ job \in [Workers -> Nat]
  BY DEF TypeOK, TakesTask
<1>2. Head(queue_) \in Nat /\ Tail(queue_) \in Seq(Nat) /\ Len(Tail(queue_)) = Len(queue_) - 1
  BY <1>1, HeadTailProperties
<1> QED BY <1>1, <1>2, NotifyShrinks DEF TakesTask, Popped, LockedBy, Moves

-----------------------------------------------------------------------------
(* Types. *)

Typed == TypeOK /\ Unspawned

LEMMA OwnerKeepsTypes ==
    ASSUME Typed,
           \/ start \/ stop \/ startReturns \/ stopWaits \/ stopWoken
           \/ stopJoins \/ stopReturns
    PROVE  Typed'
<1> USE DEF Typed, TypeOK, Unspawned, condVars, histVars
<1>1. CASE start
  BY <1>1 DEF start, Executing
<1>2. CASE stop
  BY <1>2 DEF stop, Executing
<1>3. CASE startReturns
  BY <1>3 DEF startReturns, Executing
<1>4. CASE stopWaits
  BY <1>4 DEF stopWaits, Executing
<1>5. CASE stopWoken
  BY <1>5 DEF stopWoken, Executing
<1>6. CASE stopJoins
  BY <1>6 DEF stopJoins, Executing
<1>7. CASE stopReturns
  BY <1>7 DEF stopReturns, Executing
<1> QED BY <1>1, <1>2, <1>3, <1>4, <1>5, <1>6, <1>7

LEMMA ClientKeepsTypes ==
    ASSUME Typed, NEW c \in Clients, beginExecute(c) \/ executeWaits(c) \/ execute(c)
    PROVE  Typed'
<1> USE DEF Typed, TypeOK, Unspawned, condVars, histVars
<1>1. CASE beginExecute(c)
  BY <1>1 DEF beginExecute, Executing
<1>2. CASE executeWaits(c)
  BY <1>2 DEF executeWaits, Executing
<1>3. CASE execute(c)
  <2>1. queue_' \in Seq(Nat) /\ Len(queue_') = Len(queue_) + 1 /\ Len(queue_) \in Nat
    BY <1>3, AppendProperties, LenProperties DEF execute
  <2>2. Len(queue_') <= size_
    BY <1>3, <2>1, PoolAssumption DEF execute, Full
  <2>3. notEmpty_' \subseteq notEmpty_
    BY <1>3, NotifyShrinks DEF execute
  <2> QED BY <1>3, <2>1, <2>2, <2>3 DEF execute, Executing
<1> QED BY <1>1, <1>2, <1>3

LEMMA WorkerKeepsTypes ==
    ASSUME Typed, NEW w \in Workers,
           \/ spawn(w) \/ takeWaits(w) \/ take(w) \/ takeWoken(w) \/ takeTimesOut(w)
           \/ takeGivesUp(w) \/ taskReturns(w) \/ taskCallsPool(w)
    PROVE  Typed'
<1> USE DEF Typed, TypeOK, Places, Unspawned, Moves, condVars, histVars
<1>1. CASE spawn(w)
  <2>1. at[w] = "none" /\ w \notin notEmpty_
    BY <1>1 DEF spawn
  <2> QED BY <1>1, <2>1 DEF spawn, Executing
<1>2. CASE takeWaits(w)
  BY <1>2 DEF takeWaits, Executing
<1>3. CASE take(w)
  <2>1. w \notin notEmpty_
    BY <1>3 DEF take
  <2>2. Len(queue_) \in Nat
    BY LenProperties
  <2>3. /\ queue_' \in Seq(Nat) /\ Len(queue_') = Len(queue_) - 1
        /\ notFull_' \subseteq notFull_ /\ job' \in [Workers -> Nat] /\ mutex_' = w
        /\ at' = [at EXCEPT ![w] = "task"]
    BY <1>3, TakesTaskFacts DEF take
  <2>4. Len(queue_') <= size_
    BY <2>2, <2>3, PoolAssumption
  <2> QED BY <1>3, <2>1, <2>3, <2>4 DEF take, Executing
<1>4. CASE takeWoken(w)
  BY <1>4 DEF takeWoken, Executing
<1>5. CASE takeTimesOut(w)
  BY <1>5 DEF takeTimesOut, Executing
<1>6. CASE takeGivesUp(w)
  <2>1. w \notin notEmpty_ /\ at[w] = "timedOut" /\ w \in vector_
    BY <1>6 DEF takeGivesUp
  <2>2. notFinish_' \subseteq notFinish_ /\ threads_' \in Int
    BY <1>6, NotifyShrinks DEF takeGivesUp, CountLowered
  <2>3. Len(queue_) \in Nat
    BY LenProperties
  <2>4. CASE TakesTask(w)
    <3>1. /\ queue_' \in Seq(Nat) /\ Len(queue_') = Len(queue_) - 1
          /\ notFull_' \subseteq notFull_ /\ job' \in [Workers -> Nat] /\ mutex_' = w
          /\ at' = [at EXCEPT ![w] = "task"]
      BY <2>4, TakesTaskFacts
    <3>2. Len(queue_') <= size_
      BY <2>3, <3>1, PoolAssumption
    <3>3. UNCHANGED <<notEmpty_, vector_, client, owner, executed, done>>
      BY <1>6 DEF takeGivesUp, histVars
    <3> QED BY <2>1, <2>2, <3>1, <3>2, <3>3 DEF Executing
  <2>5. CASE ~ TakesTask(w)
    BY <1>6, <2>1, <2>2, <2>5 DEF takeGivesUp, Executing
  <2> QED BY <2>4, <2>5
<1>7. CASE taskReturns(w)
  <2>1. done' \in Seq(Nat) /\ job' \in [Workers -> Nat] /\ w \in vector_
    BY <1>7 DEF taskReturns, NoTask
  <2> QED BY <1>7, <2>1 DEF taskReturns, Executing
<1>8. CASE taskCallsPool(w)
  BY <1>8 DEF taskCallsPool, Executing
<1> QED BY <1>1, <1>2, <1>3, <1>4, <1>5, <1>6, <1>7, <1>8

LEMMA TypesKept == Typed /\ [Next]_vars => Typed'
<1> SUFFICES ASSUME Typed, [Next]_vars PROVE Typed'
  OBVIOUS
<1>1. CASE spuriousWakeup
  BY <1>1 DEF spuriousWakeup, Typed, TypeOK, Unspawned, Executing, histVars
<1>2. CASE UNCHANGED vars
  BY <1>2 DEF vars, Typed, TypeOK, Unspawned, Executing, condVars, histVars
<1> QED BY <1>1, <1>2, OwnerKeepsTypes, ClientKeepsTypes, WorkerKeepsTypes
        DEF Next, OwnerSteps, ClientSteps, WorkerSteps

-----------------------------------------------------------------------------
(* No notification is lost. *)

AwakeWorkers == Alive \ notEmpty_
AwakeClients == Executing \ notFull_

\* The two halves of NobodySleepsOn.
NoTaskSleptOn == notEmpty_ # {} => Len(queue_) <= Cardinality(AwakeWorkers)
NoPlaceSleptOn == notFull_ # {} => size_ - Len(queue_) <= Cardinality(AwakeClients)

LEMMA Halves == NobodySleepsOn <=> NoTaskSleptOn /\ NoPlaceSleptOn
BY DEF NobodySleepsOn, NoTaskSleptOn, NoPlaceSleptOn, AwakeWorkers, AwakeClients

LEMMA AwakeFinite ==
    /\ IsFiniteSet(AwakeWorkers) /\ Cardinality(AwakeWorkers) \in Nat
    /\ IsFiniteSet(AwakeClients) /\ Cardinality(AwakeClients) \in Nat
<1>1. AwakeWorkers \subseteq Workers /\ AwakeClients \subseteq Clients
  BY DEF AwakeWorkers, AwakeClients, Alive, Executing
<1> QED BY <1>1, PoolAssumption, FS_Subset, FS_CardinalityType

LEMMA AwakeFiniteNext ==
    /\ IsFiniteSet(AwakeWorkers') /\ Cardinality(AwakeWorkers') \in Nat
    /\ IsFiniteSet(AwakeClients') /\ Cardinality(AwakeClients') \in Nat
<1>1. AwakeWorkers' \subseteq Workers /\ AwakeClients' \subseteq Clients
  BY DEF AwakeWorkers, AwakeClients, Alive, Executing
<1> QED BY <1>1, PoolAssumption, FS_Subset, FS_CardinalityType

\* More workers awake, and no more tasks, can only help ...
LEMMA MoreWorkersAwake ==
    ASSUME Typed, Typed', NoTaskSleptOn, notEmpty_' \subseteq notEmpty_,
           Len(queue_') <= Len(queue_), AwakeWorkers \subseteq AwakeWorkers'
    PROVE  NoTaskSleptOn'
<1>1. Cardinality(AwakeWorkers) <= Cardinality(AwakeWorkers')
  BY AwakeFiniteNext, FS_Subset
<1>2. Len(queue_) \in Nat /\ Len(queue_') \in Nat
  BY LenProperties DEF Typed, TypeOK
<1> QED BY <1>1, <1>2, AwakeFinite, AwakeFiniteNext DEF NoTaskSleptOn

\* ... and so do more clients awake, and no more places.
LEMMA MoreClientsAwake ==
    ASSUME Typed, Typed', NoPlaceSleptOn, notFull_' \subseteq notFull_,
           Len(queue_) <= Len(queue_'), AwakeClients \subseteq AwakeClients'
    PROVE  NoPlaceSleptOn'
<1>1. Cardinality(AwakeClients) <= Cardinality(AwakeClients')
  BY AwakeFiniteNext, FS_Subset
<1>2. Len(queue_) \in Nat /\ Len(queue_') \in Nat /\ size_ \in Nat
  BY PoolAssumption, LenProperties DEF Typed, TypeOK
<1> QED BY <1>1, <1>2, AwakeFinite, AwakeFiniteNext DEF NoPlaceSleptOn

\* A worker that takes a task frees a place and wakes a client for it.
LEMMA TakenTaskWakes ==
    ASSUME Typed, Typed', NoPlaceSleptOn, NEW w \in Workers, TakesTask(w), client' = client
    PROVE  NoPlaceSleptOn'
<1>1. notFull_' \in Notify(notFull_) /\ Len(queue_') = Len(queue_) - 1
  BY TakesTaskFacts DEF TakesTask, Typed
<1>2. Len(queue_) \in Nat /\ size_ \in Nat
  BY PoolAssumption, LenProperties DEF Typed, TypeOK
<1>3. CASE notFull_ = {}
  BY <1>1, <1>3, NotifyShrinks DEF NoPlaceSleptOn
<1>4. CASE notFull_ # {}
  <2>1. PICK t \in notFull_ : notFull_' = notFull_ \ {t}
    BY <1>1, <1>4, NotifyTakesOne
  <2>2. t \in Executing /\ t \notin AwakeClients /\ Executing' = Executing
    BY DEF Typed, TypeOK, AwakeClients, Executing
  <2>3. AwakeClients' = AwakeClients \cup {t}
    BY <2>1, <2>2 DEF AwakeClients
  <2>4. Cardinality(AwakeClients') = Cardinality(AwakeClients) + 1
    BY <2>2, <2>3, AwakeFinite, FS_AddElement
  <2> QED BY <1>1, <1>2, <1>4, <2>4, AwakeFinite DEF NoPlaceSleptOn
<1> QED BY <1>3, <1>4

\* A client that leaves a task takes a place, and wakes a worker for the task.
LEMMA ExecuteWakes ==
    ASSUME Typed, Typed', NobodySleepsOn, NEW c \in Clients, execute(c)
    PROVE  NobodySleepsOn'
<1>1. /\ notEmpty_' \in Notify(notEmpty_) /\ notFull_' = notFull_ /\ at' = at
      /\ Len(queue_') = Len(queue_) + 1
  BY AppendProperties DEF execute, Typed, TypeOK
<1>2. Len(queue_) \in Nat /\ size_ \in Nat
  BY PoolAssumption, LenProperties DEF Typed, TypeOK
<1>3. NoTaskSleptOn'
  <2>1. CASE notEmpty_ = {}
    BY <1>1, <2>1, NotifyShrinks DEF NoTaskSleptOn
  <2>2. CASE notEmpty_ # {}
    <3>1. PICK t \in notEmpty_ : notEmpty_' = notEmpty_ \ {t}
      BY <1>1, <2>2, NotifyTakesOne
    <3>2. t \in Alive /\ t \notin AwakeWorkers /\ Alive' = Alive
      BY <1>1 DEF Typed, TypeOK, AwakeWorkers, Alive
    <3>3. AwakeWorkers' = AwakeWorkers \cup {t}
      BY <3>1, <3>2 DEF AwakeWorkers
    <3>4. Cardinality(AwakeWorkers') = Cardinality(AwakeWorkers) + 1
      BY <3>2, <3>3, AwakeFinite, FS_AddElement
    <3>5. NoTaskSleptOn
      BY Halves
    <3> QED BY <1>1, <1>2, <2>2, <3>4, <3>5, AwakeFinite DEF NoTaskSleptOn
  <2> QED BY <2>1, <2>2
<1>4. NoPlaceSleptOn'
  <2>1. c \in AwakeClients /\ AwakeClients' = AwakeClients \ {c}
    BY <1>1 DEF execute, AwakeClients, Executing, Typed, TypeOK
  <2>2. Cardinality(AwakeClients') = Cardinality(AwakeClients) - 1
    BY <2>1, AwakeFinite, FS_RemoveElement
  <2>3. NoPlaceSleptOn
    BY Halves
  <2> QED BY <1>1, <1>2, <2>2, <2>3, AwakeFinite DEF NoPlaceSleptOn
<1>5. NobodySleepsOn' <=> NoTaskSleptOn' /\ NoPlaceSleptOn'
  BY DEF NobodySleepsOn, NoTaskSleptOn, NoPlaceSleptOn, AwakeWorkers, AwakeClients
<1> QED BY <1>3, <1>4, <1>5

\* The other steps of the owner and the clients.
LEMMA OthersDisturbNobody ==
    ASSUME Typed, Typed', NobodySleepsOn,
           \/ start \/ stop \/ startReturns \/ stopWaits \/ stopWoken
           \/ stopJoins \/ stopReturns \/ spuriousWakeup \/ UNCHANGED vars
           \/ \E c \in Clients : beginExecute(c) \/ executeWaits(c)
    PROVE  NobodySleepsOn'
<1>1. at' = at /\ queue_' = queue_ /\ notEmpty_' \subseteq notEmpty_
  BY DEF start, stop, startReturns, stopWaits, stopWoken, stopJoins, stopReturns,
         spuriousWakeup, vars, condVars, beginExecute, executeWaits
<1>2. NoTaskSleptOn /\ NoPlaceSleptOn
  BY Halves
<1>3. Len(queue_) \in Nat
  BY LenProperties DEF Typed, TypeOK
<1>4. NoTaskSleptOn'
  <2>1. AwakeWorkers \subseteq AwakeWorkers'
    BY <1>1 DEF AwakeWorkers, Alive
  <2> QED BY <1>1, <1>2, <1>3, <2>1, MoreWorkersAwake
<1>5. NoPlaceSleptOn'
  <2>1. CASE \E c \in Clients : executeWaits(c)
    <3>1. Len(queue_') = size_
      BY <2>1 DEF executeWaits, Full
    <3>2. size_ - Len(queue_') = 0
      BY <3>1, PoolAssumption
    <3> QED BY <3>2, AwakeFiniteNext DEF NoPlaceSleptOn
  <2>2. CASE ~ \E c \in Clients : executeWaits(c)
    <3>1. notFull_' \subseteq notFull_ /\ Executing \subseteq Executing'
      BY <2>2 DEF start, stop, startReturns, stopWaits, stopWoken, stopJoins, stopReturns,
             spuriousWakeup, vars, condVars, beginExecute, Executing, Typed, TypeOK
    <3>2. AwakeClients \subseteq AwakeClients'
      BY <3>1 DEF AwakeClients
    <3> QED BY <1>1, <1>2, <1>3, <3>1, <3>2, MoreClientsAwake
  <2> QED BY <2>1, <2>2
<1>6. NobodySleepsOn' <=> NoTaskSleptOn' /\ NoPlaceSleptOn'
  BY DEF NobodySleepsOn, NoTaskSleptOn, NoPlaceSleptOn, AwakeWorkers, AwakeClients
<1> QED BY <1>4, <1>5, <1>6

LEMMA WorkersDisturbNobody ==
    ASSUME Typed, Typed', NobodySleepsOn, NEW w \in Workers,
           \/ spawn(w) \/ takeWaits(w) \/ take(w) \/ takeWoken(w) \/ takeTimesOut(w)
           \/ takeGivesUp(w) \/ taskReturns(w) \/ taskCallsPool(w)
    PROVE  NobodySleepsOn'
<1>1. NoTaskSleptOn /\ NoPlaceSleptOn
  BY Halves
<1>2. client' = client /\ Executing' = Executing
  BY DEF spawn, takeWaits, take, takeWoken, takeTimesOut, takeGivesUp, taskReturns,
         taskCallsPool, Executing
<1>3. Len(queue_) \in Nat
  BY LenProperties DEF Typed, TypeOK
<1>4. NoTaskSleptOn'
  <2>1. CASE takeWaits(w) \/ (queue_ = <<>> /\ queue_' = <<>>)
    <3>1. Len(queue_') = 0
      BY <2>1, EmptySeq DEF takeWaits
    <3> QED BY <3>1, AwakeFiniteNext DEF NoTaskSleptOn
  <2>2. CASE TakesTask(w) /\ (take(w) \/ takeGivesUp(w))
    <3>1. Len(queue_') <= Len(queue_) /\ notEmpty_' = notEmpty_
      BY <1>3, <2>2, TakesTaskFacts DEF Typed, take, takeGivesUp
    <3>2. at' = [at EXCEPT ![w] = "task"] /\ w \in Alive
      BY <2>2, TakesTaskFacts DEF Typed, take, takeGivesUp, Alive
    <3>3. AwakeWorkers \subseteq AwakeWorkers'
      BY <3>1, <3>2 DEF AwakeWorkers, Alive, Typed, TypeOK
    <3> QED BY <1>1, <3>1, <3>3, MoreWorkersAwake
  <2>3. CASE spawn(w) \/ takeWoken(w) \/ takeTimesOut(w) \/ taskReturns(w) \/ taskCallsPool(w)
    <3>1. queue_' = queue_ /\ notEmpty_' \subseteq notEmpty_
      BY <2>3 DEF spawn, takeWoken, takeTimesOut, taskReturns, taskCallsPool, condVars
    <3>2. AwakeWorkers \subseteq AwakeWorkers'
      BY <2>3, <3>1 DEF AwakeWorkers, Alive, Typed, TypeOK, Moves, spawn, takeWoken,
                        takeTimesOut, taskReturns, taskCallsPool
    <3> QED BY <1>1, <1>3, <3>1, <3>2, MoreWorkersAwake
  <2> QED BY <2>1, <2>2, <2>3 DEF take, takeGivesUp
<1>5. NoPlaceSleptOn'
  <2>1. CASE TakesTask(w)
    BY <1>1, <1>2, <2>1, TakenTaskWakes
  <2>2. CASE ~ TakesTask(w)
    <3>1. queue_' = queue_ /\ notFull_' = notFull_
      BY <2>2 DEF spawn, takeWaits, take, takeWoken, takeTimesOut, takeGivesUp,
                  taskReturns, taskCallsPool, condVars
    <3>2. AwakeClients \subseteq AwakeClients'
      BY <1>2, <3>1 DEF AwakeClients
    <3> QED BY <1>1, <1>3, <3>1, <3>2, MoreClientsAwake
  <2> QED BY <2>1, <2>2
<1>6. NobodySleepsOn' <=> NoTaskSleptOn' /\ NoPlaceSleptOn'
  BY DEF NobodySleepsOn, NoTaskSleptOn, NoPlaceSleptOn, AwakeWorkers, AwakeClients
<1> QED BY <1>4, <1>5, <1>6

-----------------------------------------------------------------------------
(* The order of the tasks. *)

Ordered == TaskLocked /\ RunInOrder

\* While mutex_ is free no task is running, and the next one in queue_ is
\* the one after those that have returned.
LEMMA NothingRuns ==
    ASSUME Typed, Ordered, mutex_ = Free
    PROVE  /\ \A w \in Workers : job[w] = NoTask
           /\ done \o queue_ = [k \in 1 .. executed |-> k]
<1>1. \A w \in Workers : job[w] = NoTask
  BY PoolAssumption DEF Ordered, TaskLocked
<1>2. ASSUME NEW w \in Workers, \A v \in Workers \ {w} : job[v] = NoTask,
             done \o <<job[w]>> \o queue_ = [k \in 1 .. executed |-> k]
      PROVE  FALSE
  <2> DEFINE all == done \o <<NoTask>> \o queue_  next == Len(done) + 1
  <2>1. done \in Seq(Nat) /\ queue_ \in Seq(Nat) /\ executed \in Nat
    BY DEF Typed, TypeOK
  <2>2. all[next] = NoTask /\ next \in 1 .. Len(all) /\ next \in Nat \ {0}
    BY <2>1 DEF NoTask
  <2>3. all = [k \in 1 .. executed |-> k]
    BY <1>1, <1>2
  <2>4. Len([k \in 1 .. executed |-> k]) = executed
    BY <2>1
  <2> HIDE DEF all, next
  <2>5. next \in 1 .. executed
    BY <2>2, <2>3, <2>4
  <2>6. all[next] = next
    BY <2>3, <2>5
  <2> QED BY <2>2, <2>6 DEF NoTask
<1> QED BY <1>1, <1>2 DEF Ordered, RunInOrder

LEMMA ExecuteKeepsOrder ==
    ASSUME Typed, Ordered, NEW c \in Clients, execute(c)
    PROVE  Ordered'
<1>1. /\ done \in Seq(Nat) /\ queue_ \in Seq(Nat) /\ executed \in Nat
      /\ executed' = executed + 1 /\ done' = done /\ queue_' = Append(queue_, executed + 1)
      /\ job' = job /\ at' = at /\ mutex_' = mutex_ /\ mutex_ = Free
  BY DEF Typed, TypeOK, execute
<1>2. done \o Append(queue_, executed + 1) = Append(done \o queue_, executed + 1)
  BY <1>1
<1>3. Append([k \in 1 .. executed |-> k], executed + 1) = [k \in 1 .. executed + 1 |-> k]
  BY <1>1
<1>4. RunInOrder'
  BY <1>1, <1>2, <1>3, NothingRuns DEF RunInOrder
<1> QED BY <1>1, <1>4 DEF Ordered, TaskLocked

\* The head of a queue goes to the end of what is done.
LEMMA HeadMovesOver ==
    ASSUME NEW s \in Seq(Nat), NEW t \in Seq(Nat), t # <<>>
    PROVE  s \o <<Head(t)>> \o Tail(t) = s \o t
<1>1. <<Head(t)>> \o Tail(t) = t
  OBVIOUS
<1>2. <<Head(t)>> \in Seq(Nat) /\ Tail(t) \in Seq(Nat)
  OBVIOUS
<1> DEFINE u == <<Head(t)>>
           v == Tail(t)
<1> HIDE DEF u, v
<1>3. u \in Seq(Nat) /\ v \in Seq(Nat)
  BY <1>2 DEF u, v
<1>4. (s \o u) \o v = s \o (u \o v)
  BY <1>3, SMTT(30)
<1> QED BY <1>1, <1>4 DEF u, v

\* A worker takes the next task only when it has mutex_.
LEMMA TakesTaskKeepsOrder ==
    ASSUME Typed, Ordered, mutex_ = Free, NEW w \in Workers, TakesTask(w),
           UNCHANGED histVars
    PROVE  Ordered'
<1>1. /\ done \in Seq(Nat) /\ queue_ \in Seq(Nat) /\ queue_ # <<>> /\ executed \in Nat
      /\ job \in [Workers -> Nat] /\ at \in [Workers -> Places]
      /\ queue_' = Tail(queue_) /\ mutex_' = w
      /\ job' = [job EXCEPT ![w] = Head(queue_)] /\ at' = [at EXCEPT ![w] = "task"]
      /\ done' = done /\ executed' = executed
  BY DEF Typed, TypeOK, TakesTask, Popped, LockedBy, Moves, histVars
<1>2. done \o <<Head(queue_)>> \o Tail(queue_) = done \o queue_
  BY <1>1, HeadMovesOver
<1>3. /\ \A v \in Workers : job[v] = NoTask
      /\ done \o queue_ = [k \in 1 .. executed |-> k]
  BY NothingRuns
<1>4. Head(queue_) # NoTask
  <2> DEFINE all == done \o queue_  next == Len(done) + 1
  <2>1. all[next] = Head(queue_) /\ next \in 1 .. Len(all) /\ next \in Nat \ {0}
    BY <1>1
  <2>2. Len([k \in 1 .. executed |-> k]) = executed
    BY <1>1
  <2>3. all = [k \in 1 .. executed |-> k]
    BY <1>3
  <2> HIDE DEF all, next
  <2>4. next \in 1 .. executed
    BY <2>1, <2>2, <2>3
  <2>5. all[next] = next
    BY <2>3, <2>4
  <2> QED BY <2>1, <2>5 DEF NoTask
<1>5. RunInOrder'
  BY <1>1, <1>2, <1>3 DEF RunInOrder
<1>6. TaskLocked'
  BY <1>1, <1>3, <1>4 DEF Ordered, TaskLocked
<1> QED BY <1>5, <1>6 DEF Ordered

LEMMA ReturnKeepsOrder ==
    ASSUME Typed, Ordered, NEW w \in Workers, taskReturns(w)
    PROVE  Ordered'
<1>1. /\ done \in Seq(Nat) /\ queue_ \in Seq(Nat) /\ executed \in Nat
      /\ job \in [Workers -> Nat] /\ at \in [Workers -> Places] /\ at[w] = "task"
      /\ job' = [job EXCEPT ![w] = NoTask] /\ at' = [at EXCEPT ![w] = "lock"]
      /\ done' = Append(done, job[w]) /\ queue_' = queue_ /\ executed' = executed
  BY DEF Typed, TypeOK, taskReturns, Moves
<1>2. job[w] # NoTask /\ mutex_ = w
  BY <1>1 DEF Ordered, TaskLocked
<1>3. /\ \A v \in Workers \ {w} : job[v] = NoTask
      /\ done \o <<job[w]>> \o queue_ = [k \in 1 .. executed |-> k]
  BY <1>2 DEF Ordered, RunInOrder
<1>4. Append(done, job[w]) = done \o <<job[w]>>
  BY <1>1
<1>5. RunInOrder'
  BY <1>1, <1>3, <1>4 DEF RunInOrder
<1>6. TaskLocked'
  BY <1>1, <1>2, <1>3 DEF Ordered, TaskLocked
<1> QED BY <1>5, <1>6 DEF Ordered

\* No other step starts or ends a task.
LEMMA OtherKeepsOrder ==
    ASSUME Typed, Ordered, UNCHANGED <<queue_, job, mutex_, histVars>>,
           \/ at' = at
           \/ \E w \in Workers, place \in Places :
                /\ at' = [at EXCEPT ![w] = place]
                /\ place \in {"task", "stuck"} <=> at[w] \in {"task", "stuck"}
    PROVE  Ordered'
<1>1. RunInOrder'
  BY DEF Ordered, RunInOrder, histVars
<1>2. TaskLocked'
  BY DEF Ordered, TaskLocked, Typed, TypeOK
<1> QED BY <1>1, <1>2 DEF Ordered

LEMMA OrderKept == Typed /\ Ordered /\ [Next]_vars => Ordered'
<1> SUFFICES ASSUME Typed, Ordered, [Next]_vars PROVE Ordered'
  OBVIOUS
<1>1. ASSUME NEW c \in Clients, execute(c) PROVE Ordered'
  BY <1>1, ExecuteKeepsOrder
<1>2. ASSUME NEW w \in Workers, take(w) PROVE Ordered'
  BY <1>2, TakesTaskKeepsOrder DEF take
<1>3. ASSUME NEW w \in Workers, takeGivesUp(w) PROVE Ordered'
  <2>1. CASE TakesTask(w)
    BY <1>3, <2>1, TakesTaskKeepsOrder DEF takeGivesUp
  <2>2. CASE ~ TakesTask(w)
    <3>1. /\ UNCHANGED <<queue_, job, mutex_, histVars>>
          /\ at' = [at EXCEPT ![w] = "exited"] /\ at[w] = "timedOut"
      BY <1>3, <2>2 DEF takeGivesUp, Moves
    <3>2. "exited" \in Places
      BY DEF Places
    <3> QED BY <3>1, <3>2, OtherKeepsOrder
  <2> QED BY <2>1, <2>2
<1>4. ASSUME NEW w \in Workers, taskReturns(w) PROVE Ordered'
  BY <1>4, ReturnKeepsOrder
<1>5. ASSUME NEW w \in Workers,
             \/ spawn(w) \/ takeWaits(w) \/ takeWoken(w) \/ takeTimesOut(w)
             \/ taskCallsPool(w)
      PROVE  Ordered'
  <2>1. UNCHANGED <<queue_, job, mutex_, histVars>>
    BY <1>5 DEF spawn, takeWaits, takeWoken, takeTimesOut, taskCallsPool
  <2>2. \/ at' = at
        \/ at[w] = "none" /\ at' = [at EXCEPT ![w] = "lock"]
        \/ at[w] = "lock" /\ at' = [at EXCEPT ![w] = "wait"]
        \/ at[w] = "wait" /\ at' = [at EXCEPT ![w] = "lock"]
        \/ at[w] = "wait" /\ at' = [at EXCEPT ![w] = "timedOut"]
        \/ at[w] = "task" /\ at' = [at EXCEPT ![w] = "stuck"]
    BY <1>5 DEF Typed, Unspawned, spawn, takeWaits, takeWoken, takeTimesOut,
                taskCallsPool, Moves
  <2>3. {"lock", "wait", "timedOut", "stuck"} \subseteq Places
    BY DEF Places
  <2> QED BY <2>1, <2>2, <2>3, OtherKeepsOrder
<1>6. CASE \/ start \/ stop \/ startReturns \/ stopWaits \/ stopWoken \/ stopJoins
           \/ stopReturns \/ spuriousWakeup \/ UNCHANGED vars
           \/ \E c \in Clients : beginExecute(c) \/ executeWaits(c)
  BY <1>6, OtherKeepsOrder
     DEF start, stop, startReturns, stopWaits, stopWoken, stopJoins, stopReturns,
         spuriousWakeup, vars, beginExecute, executeWaits
<1> QED BY <1>1, <1>2, <1>3, <1>4, <1>5, <1>6
        DEF Next, OwnerSteps, ClientSteps, WorkerSteps

-----------------------------------------------------------------------------
LEMMA Initially == Init => IInv
<1> SUFFICES ASSUME Init PROVE IInv
  OBVIOUS
<1>1. Cardinality(Workers) \in Int
  BY PoolAssumption, FS_CardinalityType
<1>2. TypeOK /\ Unspawned
  BY <1>1, EmptySeq, PoolAssumption DEF Init, TypeOK, Places, Unspawned, Executing, NoTask
<1>3. NobodySleepsOn
  BY DEF Init, NobodySleepsOn
<1>4. RunInOrder
  BY DEF Init, RunInOrder
<1>5. TaskLocked
  BY DEF Init, TaskLocked
<1> QED BY <1>2, <1>3, <1>4, <1>5 DEF IInv

LEMMA Inductive == Spec => []IInv
<1>1. IInv /\ [Next]_vars => IInv'
  <2> SUFFICES ASSUME IInv, [Next]_vars PROVE IInv'
    OBVIOUS
  <2>1. Typed /\ Typed' /\ Ordered'
    BY TypesKept, OrderKept DEF IInv, Typed, Ordered
  <2>2. NobodySleepsOn'
    BY <2>1, ExecuteWakes, OthersDisturbNobody, WorkersDisturbNobody
       DEF IInv, Next, OwnerSteps, ClientSteps, WorkerSteps
  <2> QED BY <2>1, <2>2 DEF IInv, Typed, Ordered
<1> QED BY <1>1, Initially, PTL DEF Spec

\* The variables of the pool keep their types whatever times out, wakes up or
\* fails to start: the queue never exceeds its size, and whoever sleeps is in
\* the call that waits.
THEOREM TypeCorrect == Spec => []TypeOK
BY Inductive, PTL DEF IInv

\* No worker sleeps on a task and no client on a free place, for any numbers
\* of them: one notify() for each task and each place is enough.
THEOREM NotificationsSuffice == Spec => []NobodySleepsOn
BY Inductive, PTL DEF IInv

\* Tasks run one at a time in the order in which execute() took them, each
\* once and each after the one before it has returned, because the worker
\* that runs one keeps mutex_.
THEOREM TasksRunInOrder == Spec => []RunInOrder
BY Inductive, PTL DEF IInv
=============================================================================
