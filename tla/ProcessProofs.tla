--------------------------- MODULE ProcessProofs ---------------------------
(***************************************************************************)
(* Theorems of the threads of a process, for any set of Thread objects and *)
(* any set of callers that scan /proc beside them.  Thread objects share   *)
(* nothing, so their invariant is a statement about each of them: where    *)
(* its owner is says where its pthread can be, and what is left to do with *)
(* the handle.                                                             *)
(* The scans share two variables and disturb each other; their invariant   *)
(* says what a call knows while no other call of its function overlaps it. *)
(***************************************************************************)
EXTENDS Process, FiniteSetTheorems, TLAPS

-----------------------------------------------------------------------------
(* Thread objects. *)

\* start() keeps its caller until the pthread needs the object no longer.
HeldInStart(o) ==
    /\ thread[o] \in {"born", "hasTid"} => owner[o] = "wait"
    /\ thread[o] \in {"none", "born", "hasTid"} => latch_[o] = 1
    /\ thread[o] \in {"hasTid", "func", "ended"} => tid_[o] > 0
    /\ owner[o] \in {"started", "join", "joined"} => thread[o] \in {"func", "ended"}

\* What the owner still has to do with the pthread's handle.
Accountable(o) ==
    /\ owner[o] \in {"idle", "failed"} =>
         /\ handle[o] = "none" /\ thread[o] = "none"
         /\ started_[o] = FALSE /\ joined_[o] = FALSE
    /\ owner[o] \in {"wait", "started"} =>
         /\ handle[o] = "joinable" /\ thread[o] # "none"
         /\ started_[o] = TRUE /\ joined_[o] = FALSE
    /\ owner[o] = "join" => handle[o] = "joinable" /\ joined_[o] = TRUE
    /\ owner[o] = "joined" => handle[o] = "joined" /\ joined_[o] = TRUE
    /\ owner[o] = "destroyed" => handle[o] # "joinable"

IInv == TypeOK /\ \A o \in Objects : HeldInStart(o) /\ Accountable(o)

-----------------------------------------------------------------------------
LEMMA Initially == Init => IInv
<1> SUFFICES ASSUME Init PROVE IInv
  OBVIOUS
<1>1. TypeOK
  BY DEF Init, TypeOK
<1>2. ASSUME NEW o \in Objects PROVE HeldInStart(o) /\ Accountable(o)
  BY DEF Init, HeldInStart, Accountable
<1> QED BY <1>1, <1>2 DEF IInv

\* A step of one object leaves the others alone.
LEMMA OwnerKeepsIInv ==
    ASSUME IInv, NEW o \in Objects, Owner(o)
    PROVE  IInv'
<1> USE DEF OwnerGoes, ThreadGoes
<1>1. CASE start(o)
  <2>1. TypeOK'
    BY <1>1 DEF IInv, TypeOK, start, AfterCreate
  <2>2. ASSUME NEW p \in Objects PROVE HeldInStart(p)' /\ Accountable(p)'
    BY <1>1 DEF IInv, TypeOK, start, AfterCreate, HeldInStart, Accountable
  <2> QED BY <2>1, <2>2 DEF IInv
<1>2. CASE startFails(o)
  <2>1. TypeOK'
    BY <1>2 DEF IInv, TypeOK, startFails
  <2>2. ASSUME NEW p \in Objects PROVE HeldInStart(p)' /\ Accountable(p)'
    BY <1>2 DEF IInv, TypeOK, startFails, HeldInStart, Accountable
  <2> QED BY <2>1, <2>2 DEF IInv
<1>3. CASE startReturns(o)
  <2>1. TypeOK'
    BY <1>3 DEF IInv, TypeOK, startReturns
  <2>2. ASSUME NEW p \in Objects PROVE HeldInStart(p)' /\ Accountable(p)'
    BY <1>3 DEF IInv, TypeOK, startReturns, HeldInStart, Accountable
  <2> QED BY <2>1, <2>2 DEF IInv
<1>4. CASE join(o)
  <2>1. TypeOK'
    BY <1>4 DEF IInv, TypeOK, join
  <2>2. ASSUME NEW p \in Objects PROVE HeldInStart(p)' /\ Accountable(p)'
    BY <1>4 DEF IInv, TypeOK, join, HeldInStart, Accountable
  <2> QED BY <2>1, <2>2 DEF IInv
<1>5. CASE joinReturns(o)
  <2>1. TypeOK'
    BY <1>5 DEF IInv, TypeOK, joinReturns
  <2>2. ASSUME NEW p \in Objects PROVE HeldInStart(p)' /\ Accountable(p)'
    BY <1>5 DEF IInv, TypeOK, joinReturns, HeldInStart, Accountable
  <2> QED BY <2>1, <2>2 DEF IInv
<1>6. CASE destroy(o)
  <2>1. TypeOK'
    BY <1>6 DEF IInv, TypeOK, destroy
  <2>2. ASSUME NEW p \in Objects PROVE HeldInStart(p)' /\ Accountable(p)'
    BY <1>6 DEF IInv, TypeOK, destroy, Detaches, HeldInStart, Accountable
  <2> QED BY <2>1, <2>2 DEF IInv
<1> QED BY <1>1, <1>2, <1>3, <1>4, <1>5, <1>6 DEF Owner

LEMMA PthreadKeepsIInv ==
    ASSUME IInv, NEW o \in Objects, Pthread(o)
    PROVE  IInv'
<1> USE DEF ThreadGoes
<1>1. CASE storeTid(o)
  <2>1. TypeOK'
    BY <1>1 DEF IInv, TypeOK, storeTid
  <2>2. ASSUME NEW p \in Objects PROVE HeldInStart(p)' /\ Accountable(p)'
    BY <1>1 DEF IInv, TypeOK, storeTid, HeldInStart, Accountable
  <2> QED BY <2>1, <2>2 DEF IInv
<1>2. CASE countDown(o)
  <2>1. TypeOK'
    BY <1>2 DEF IInv, TypeOK, countDown, HeldInStart
  <2>2. ASSUME NEW p \in Objects PROVE HeldInStart(p)' /\ Accountable(p)'
    BY <1>2 DEF IInv, TypeOK, countDown, HeldInStart, Accountable
  <2> QED BY <2>1, <2>2 DEF IInv
<1>3. CASE funcReturns(o)
  <2>1. TypeOK'
    BY <1>3 DEF IInv, TypeOK, funcReturns
  <2>2. ASSUME NEW p \in Objects PROVE HeldInStart(p)' /\ Accountable(p)'
    BY <1>3 DEF IInv, TypeOK, funcReturns, HeldInStart, Accountable
  <2> QED BY <2>1, <2>2 DEF IInv
<1> QED BY <1>1, <1>2, <1>3 DEF Pthread

\* The scans change nothing of a Thread object, so what a step of the process
\* does to one is a step of Thread, or nothing.
LEMMA Inductive == ProcessSpec => []IInv
<1>1. IInv /\ [Next]_vars => IInv'
  <2> SUFFICES ASSUME IInv, [Next]_vars PROVE IInv'
    OBVIOUS
  <2>1. CASE \E o \in Objects : Owner(o) \/ Pthread(o)
    BY <2>1, OwnerKeepsIInv, PthreadKeepsIInv
  <2>2. CASE UNCHANGED vars
    BY <2>2 DEF vars, IInv, TypeOK, HeldInStart, Accountable
  <2> QED BY <2>1, <2>2 DEF Next
<1>2. ProcessInit => Init
  BY DEF ProcessInit
<1>3. [ProcessNext]_<<vars, Scans!procVars>> => [Next]_vars
  BY DEF ProcessNext, ThreadStep, ProcessStep
<1> QED BY <1>1, <1>2, <1>3, Initially, PTL DEF ProcessSpec

-----------------------------------------------------------------------------
\* With other threads scanning /proc all the while, every variable of a Thread
\* object keeps its type; no latch is counted below zero.
THEOREM TypeCorrect == ProcessSpec => []TypeOK
BY Inductive, PTL DEF IInv

\* A pthread never writes into an object that has been destroyed, although
\* its owner may destroy the object as soon as start() has returned.
THEOREM NoDanglingPointers == ProcessSpec => []PointersAlive
<1>1. IInv => PointersAlive
  BY DEF IInv, HeldInStart, PointersAlive
<1> QED BY <1>1, Inductive, PTL

\* The assertion tid_ > 0 at the end of start() never fails.
THEOREM TidAssertion == ProcessSpec => []TidIsKnown
<1>1. IInv => TidIsKnown
  BY DEF IInv, HeldInStart, TidIsKnown
<1> QED BY <1>1, Inductive, PTL

\* No object is destroyed with its pthread neither joined nor detached.
THEOREM HandlesAreReleased == ProcessSpec => []NoHandleLeaks
<1>1. IInv => NoHandleLeaks
  BY DEF IInv, Accountable, NoHandleLeaks
<1> QED BY <1>1, Inductive, PTL

\* What has been joined or detached is not released again, and what was never
\* created is not released at all, by any path from start() to the destructor.
THEOREM NeverReleasedTwice == ProcessSpec => ReleasedOnce
<1> DEFINE Kept == \A o \in Objects :
               /\ handle[o] \in {"joined", "detached"} => handle'[o] = handle[o]
               /\ handle[o] = "none" => handle'[o] \notin {"joined", "detached"}
<1>1. IInv /\ Next => Kept
  <2> SUFFICES ASSUME IInv, NEW o \in Objects, Owner(o) \/ Pthread(o), NEW p \in Objects
               PROVE  /\ handle[p] \in {"joined", "detached"} => handle'[p] = handle[p]
                      /\ handle[p] = "none" => handle'[p] \notin {"joined", "detached"}
    BY DEF Next
  <2> USE DEF IInv, TypeOK, Accountable
  <2>1. CASE Pthread(o)
    BY <2>1 DEF Pthread, storeTid, countDown, funcReturns
  <2>2. CASE startFails(o) \/ startReturns(o) \/ join(o)
    BY <2>2 DEF startFails, startReturns, join
  <2>3. CASE start(o)
    BY <2>3 DEF start
  <2>4. CASE joinReturns(o)
    BY <2>4 DEF joinReturns
  <2>5. CASE destroy(o)
    BY <2>5 DEF destroy, Detaches
  <2> QED BY <2>1, <2>2, <2>3, <2>4, <2>5 DEF Owner
<1>2. IInv /\ [ProcessNext]_<<vars, Scans!procVars>> => [Kept]_vars
  <2> HIDE DEF Kept
  <2> QED BY <1>1 DEF ProcessNext, ThreadStep, ProcessStep
<1> QED BY <1>2, Inductive, PTL DEF ProcessSpec, ReleasedOnce

-----------------------------------------------------------------------------
(* The scans of ProcessInfo. *)

Ids == Callers \cup Objects

Places == {"out", "files", "store", "counted", "tasks", "listed"}

ScanTypeOK ==
    /\ t_numOpenedFiles \in Nat
    /\ t_pids \in Callers \cup {NULL}
    /\ at \in [Callers -> Places]
    /\ reg \in [Callers -> Nat]
    /\ result \in [Callers -> [Ids -> Nat]]
    /\ fds \subseteq Fds \cup {1}
    /\ read \in [Callers -> SUBSET (Fds \cup {1} \cup Ids)]
    /\ \A c \in Callers : IsFiniteSet(read[c])
    /\ alone \in [Callers -> BOOLEAN]

\* t_pids points nowhere, or to the vector of a call that is not over.
PointsToALiveCall == t_pids # NULL => Scans!InTasks(at[t_pids])

\* Before a call nothing has been read, and its vector is empty unless it is
\* a call of threads(): whatever others push, they push it to one of those.
StartsAfresh ==
    \A c \in Callers :
        /\ at[c] = "out" => read[c] = {}
        /\ ~ Scans!InTasks(at[c]) => result[c] = Scans!NoIds

\* Two calls of one function are not both alone.
AloneIsAlone ==
    \A c, d \in Callers : alone[c] /\ c # d =>
        /\ Scans!InFiles(at[c]) => ~ Scans!InFiles(at[d])
        /\ Scans!InTasks(at[c]) => ~ Scans!InTasks(at[d])

\* threads() pushes into its own vector, each entry once.
ListsRight(c) ==
    alone[c] /\ Scans!InTasks(at[c]) =>
        /\ t_pids = c
        /\ result[c] = [i \in Ids |-> IF i \in read[c] THEN 1 ELSE 0]

\* openedFiles() has counted what it has read, but for an entry between the
\* load and the store of ++.
CountsRight(c) ==
    alone[c] =>
        /\ at[c] \in {"files", "counted"} => t_numOpenedFiles = Cardinality(read[c])
        /\ at[c] = "store" => reg[c] + 1 = Cardinality(read[c])

ScanInv ==
    /\ ScanTypeOK /\ PointsToALiveCall /\ StartsAfresh /\ AloneIsAlone
    /\ \A c \in Callers : ListsRight(c) /\ CountsRight(c)

scanState == <<t_numOpenedFiles, t_pids, at, reg, result, read, fds, alone>>

\* With every step of the process a call stays alone only if it was, and
\* nobody has joined it.
LEMMA WatchKeepsAloneIsAlone ==
    ASSUME alone \in [Callers -> BOOLEAN], Scans!Watch
    PROVE  /\ alone' \in [Callers -> BOOLEAN]
           /\ AloneIsAlone'
           /\ \A c \in Callers : alone'[c] /\ at'[c] # "out" => alone[c]
BY DEF Scans!Watch, AloneIsAlone, Scans!InFiles, Scans!InTasks

\* A call that is alone after a step had no company before it either.
LEMMA NoCompany ==
    ASSUME ScanInv, Scans!Watch, NEW c \in Callers, NEW d \in Callers, c # d,
           at'[d] = at[d], alone'[d]
    PROVE  /\ Scans!InFiles(at[d]) => ~ Scans!InFiles(at[c]) /\ ~ Scans!InFiles(at'[c])
           /\ Scans!InTasks(at[d]) => ~ Scans!InTasks(at[c]) /\ ~ Scans!InTasks(at'[c])
<1>1. AloneIsAlone' /\ (at'[d] # "out" => alone[d])
  BY WatchKeepsAloneIsAlone DEF ScanInv, ScanTypeOK
<1>2. AloneIsAlone
  BY DEF ScanInv
<1>3. Scans!InFiles(at[d]) \/ Scans!InTasks(at[d]) => at[d] # "out"
  BY DEF Scans!InFiles, Scans!InTasks
<1> QED BY <1>1, <1>2, <1>3 DEF AloneIsAlone

LEMMA ListsUndisturbed ==
    ASSUME ScanInv, Scans!Watch, NEW d \in Callers, t_pids' = t_pids,
           result'[d] = result[d], read'[d] = read[d],
           Scans!InTasks(at'[d]) => Scans!InTasks(at[d])
    PROVE  ListsRight(d)'
<1>1. alone'[d] /\ Scans!InTasks(at'[d]) => alone[d]
  BY WatchKeepsAloneIsAlone DEF ScanInv, ScanTypeOK, Scans!InTasks
<1> QED BY <1>1 DEF ScanInv, ListsRight

LEMMA CountsUndisturbed ==
    ASSUME ScanInv, Scans!Watch, NEW d \in Callers,
           t_numOpenedFiles' = t_numOpenedFiles, reg'[d] = reg[d],
           read'[d] = read[d], at'[d] = at[d]
    PROVE  CountsRight(d)'
<1>1. alone'[d] /\ at'[d] # "out" => alone[d]
  BY WatchKeepsAloneIsAlone DEF ScanInv, ScanTypeOK
<1> QED BY <1>1 DEF ScanInv, CountsRight

-----------------------------------------------------------------------------
(* One lemma for each step of a call. *)

LEMMA OpenedFilesKeepsScanInv ==
    ASSUME ScanInv, NEW c \in Callers, Scans!openedFiles(c), Scans!Watch
    PROVE  ScanInv'
<1> USE DEF Scans!Goes, Scans!scanVars, Scans!sharedVars
<1>1. ScanTypeOK'
  <2>1. alone' \in [Callers -> BOOLEAN]
    BY WatchKeepsAloneIsAlone DEF ScanInv, ScanTypeOK
  <2>2. \A d \in Callers : IsFiniteSet(read'[d])
    BY DEF ScanInv, ScanTypeOK, Scans!openedFiles, Scans!CountAtStart, Scans!opens
  <2> QED BY <2>1, <2>2 DEF ScanInv, ScanTypeOK, Places, Scans!openedFiles,
                            Scans!CountAtStart, Scans!opens
<1>2. PointsToALiveCall'
  BY DEF ScanInv, ScanTypeOK, PointsToALiveCall, Scans!InTasks, Places,
         Scans!openedFiles, Scans!CountAtStart, Scans!opens
<1>3. StartsAfresh'
  BY ProcessAssumption DEF ScanInv, ScanTypeOK, StartsAfresh, PointsToALiveCall,
                           Scans!InTasks, Places, Scans!openedFiles,
                           Scans!CountAtStart, Scans!opens
<1>4. ASSUME NEW d \in Callers PROVE ListsRight(d)'
  BY ListsUndisturbed DEF ScanInv, ScanTypeOK, Scans!InTasks, Scans!openedFiles,
                          Scans!CountAtStart, Scans!opens
<1>5. ASSUME NEW d \in Callers PROVE CountsRight(d)'
  <2>1. CASE d = c
    BY <2>1, FS_EmptySet DEF ScanInv, ScanTypeOK, StartsAfresh, CountsRight,
                             Scans!openedFiles, Scans!CountAtStart, Scans!opens
  <2>2. CASE d # c
    <3>1. at'[d] = at[d] /\ Scans!InFiles(at'[c])
      BY <2>2 DEF ScanInv, ScanTypeOK, Scans!InFiles, Places, Scans!openedFiles,
                  Scans!CountAtStart, Scans!opens
    <3>2. alone'[d] => ~ Scans!InFiles(at'[d])
      BY <2>2, <3>1, NoCompany
    <3> QED BY <3>2 DEF CountsRight, Scans!InFiles
  <2> QED BY <2>1, <2>2
<1> QED BY <1>1, <1>2, <1>3, <1>4, <1>5, WatchKeepsAloneIsAlone DEF ScanInv, ScanTypeOK

LEMMA FdDirFilterKeepsScanInv ==
    ASSUME ScanInv, NEW c \in Callers, Scans!fdDirFilter(c), Scans!Watch
    PROVE  ScanInv'
<1> USE DEF Scans!Goes, Scans!scanVars, Scans!sharedVars
<1>entry. PICK e \in fds \ read[c] : read' = [read EXCEPT ![c] = @ \cup {e}]
  BY DEF Scans!fdDirFilter, Scans!reads
<1>1. ScanTypeOK'
  <2>1. alone' \in [Callers -> BOOLEAN]
    BY WatchKeepsAloneIsAlone DEF ScanInv, ScanTypeOK
  <2>2. \A d \in Callers : IsFiniteSet(read'[d])
    BY <1>entry, FS_AddElement DEF ScanInv, ScanTypeOK
  <2>3. read' \in [Callers -> SUBSET (Fds \cup {1} \cup Ids)]
    BY <1>entry DEF ScanInv, ScanTypeOK
  <2>4. reg' \in [Callers -> Nat] /\ at' \in [Callers -> Places]
    BY DEF ScanInv, ScanTypeOK, Places, Scans!fdDirFilter
  <2> QED BY <2>1, <2>2, <2>3, <2>4 DEF ScanInv, ScanTypeOK, Scans!fdDirFilter
<1>2. PointsToALiveCall'
  BY DEF ScanInv, ScanTypeOK, PointsToALiveCall, Scans!InTasks, Places,
         Scans!fdDirFilter, Scans!reads
<1>3. StartsAfresh'
  BY ProcessAssumption DEF ScanInv, ScanTypeOK, StartsAfresh, PointsToALiveCall,
                           Scans!InTasks, Places, Scans!fdDirFilter, Scans!reads
<1>4. ASSUME NEW d \in Callers PROVE ListsRight(d)'
  <2>1. CASE d = c
    BY <2>1 DEF ScanInv, ScanTypeOK, ListsRight, Scans!InTasks, Scans!fdDirFilter,
                Scans!reads
  <2>2. CASE d # c
    BY <2>2, ListsUndisturbed DEF ScanInv, ScanTypeOK, Scans!InTasks,
                                  Scans!fdDirFilter, Scans!reads
  <2> QED BY <2>1, <2>2
<1>5. ASSUME NEW d \in Callers PROVE CountsRight(d)'
  <2>1. CASE d = c
    <3>1. alone'[c] => alone[c]
      BY WatchKeepsAloneIsAlone DEF ScanInv, ScanTypeOK, Scans!fdDirFilter, Scans!reads
    <3>2. at'[c] = "store" /\ reg'[c] = t_numOpenedFiles
      BY DEF ScanInv, ScanTypeOK, Scans!fdDirFilter, Scans!reads
    <3>3. Cardinality(read'[c]) = Cardinality(read[c]) + 1
      BY <1>entry, FS_AddElement DEF ScanInv, ScanTypeOK
    <3> QED BY <2>1, <3>1, <3>2, <3>3 DEF ScanInv, CountsRight, Scans!fdDirFilter
  <2>2. CASE d # c
    BY <2>2, CountsUndisturbed DEF ScanInv, ScanTypeOK, Scans!fdDirFilter, Scans!reads
  <2> QED BY <2>1, <2>2
<1> QED BY <1>1, <1>2, <1>3, <1>4, <1>5, WatchKeepsAloneIsAlone DEF ScanInv, ScanTypeOK

LEMMA StoresCountKeepsScanInv ==
    ASSUME ScanInv, NEW c \in Callers, Scans!storesCount(c), Scans!Watch
    PROVE  ScanInv'
<1> USE DEF Scans!Goes, Scans!scanVars, Scans!sharedVars
<1>1. ScanTypeOK'
  <2>1. alone' \in [Callers -> BOOLEAN]
    BY WatchKeepsAloneIsAlone DEF ScanInv, ScanTypeOK
  <2>2. \A d \in Callers : IsFiniteSet(read'[d])
    BY DEF ScanInv, ScanTypeOK, Scans!storesCount
  <2>3. t_numOpenedFiles' \in Nat /\ reg' \in [Callers -> Nat]
    BY DEF ScanInv, ScanTypeOK, Scans!storesCount
  <2>4. at' \in [Callers -> Places]
    BY DEF ScanInv, ScanTypeOK, Places, Scans!storesCount
  <2> QED BY <2>1, <2>2, <2>3, <2>4 DEF ScanInv, ScanTypeOK, Scans!storesCount
<1>2. PointsToALiveCall'
  BY DEF ScanInv, ScanTypeOK, PointsToALiveCall, Scans!InTasks, Places, Scans!storesCount
<1>3. StartsAfresh'
  BY ProcessAssumption DEF ScanInv, ScanTypeOK, StartsAfresh, PointsToALiveCall,
                           Scans!InTasks, Places, Scans!storesCount
<1>4. ASSUME NEW d \in Callers PROVE ListsRight(d)'
  BY ListsUndisturbed DEF ScanInv, ScanTypeOK, Scans!InTasks, Scans!storesCount
<1>5. ASSUME NEW d \in Callers PROVE CountsRight(d)'
  <2>1. CASE d = c
    <3>1. alone'[c] => alone[c]
      BY <2>1, WatchKeepsAloneIsAlone DEF ScanInv, ScanTypeOK, Scans!storesCount
    <3> QED BY <2>1, <3>1 DEF ScanInv, ScanTypeOK, CountsRight, Scans!storesCount
  <2>2. CASE d # c
    <3>1. at'[d] = at[d] /\ Scans!InFiles(at'[c])
      BY <2>2 DEF ScanInv, ScanTypeOK, Scans!InFiles, Places, Scans!storesCount
    <3>2. alone'[d] => ~ Scans!InFiles(at'[d])
      BY <2>2, <3>1, NoCompany
    <3> QED BY <3>2 DEF CountsRight, Scans!InFiles
  <2> QED BY <2>1, <2>2
<1> QED BY <1>1, <1>2, <1>3, <1>4, <1>5, WatchKeepsAloneIsAlone DEF ScanInv, ScanTypeOK

LEMMA FilesScannedKeepsScanInv ==
    ASSUME ScanInv, NEW c \in Callers, Scans!filesScanned(c), Scans!Watch
    PROVE  ScanInv'
<1> USE DEF Scans!Goes, Scans!scanVars, Scans!sharedVars
<1>1. ScanTypeOK'
  <2>1. alone' \in [Callers -> BOOLEAN]
    BY WatchKeepsAloneIsAlone DEF ScanInv, ScanTypeOK
  <2>2. \A d \in Callers : IsFiniteSet(read'[d])
    BY DEF ScanInv, ScanTypeOK, Scans!filesScanned, Scans!closes
  <2> QED BY <2>1, <2>2 DEF ScanInv, ScanTypeOK, Places, Scans!filesScanned, Scans!closes
<1>2. PointsToALiveCall'
  BY DEF ScanInv, ScanTypeOK, PointsToALiveCall, Scans!InTasks, Places,
         Scans!filesScanned, Scans!closes
<1>3. StartsAfresh'
  BY ProcessAssumption DEF ScanInv, ScanTypeOK, StartsAfresh, PointsToALiveCall,
                           Scans!InTasks, Places, Scans!filesScanned, Scans!closes
<1>4. ASSUME NEW d \in Callers PROVE ListsRight(d)'
  BY ListsUndisturbed DEF ScanInv, ScanTypeOK, Scans!InTasks, Scans!filesScanned,
                          Scans!closes
<1>5. ASSUME NEW d \in Callers PROVE CountsRight(d)'
  <2>1. CASE d = c
    <3>1. alone'[c] => alone[c]
      BY <2>1, WatchKeepsAloneIsAlone
         DEF ScanInv, ScanTypeOK, Scans!filesScanned, Scans!closes
    <3> QED BY <2>1, <3>1 DEF ScanInv, ScanTypeOK, CountsRight, Scans!filesScanned,
                              Scans!closes
  <2>2. CASE d # c
    BY <2>2, CountsUndisturbed DEF ScanInv, ScanTypeOK, Scans!filesScanned, Scans!closes
  <2> QED BY <2>1, <2>2
<1> QED BY <1>1, <1>2, <1>3, <1>4, <1>5, WatchKeepsAloneIsAlone DEF ScanInv, ScanTypeOK

LEMMA OpenedFilesReturnsKeepsScanInv ==
    ASSUME ScanInv, NEW c \in Callers, Scans!openedFilesReturns(c), Scans!Watch
    PROVE  ScanInv'
<1> USE DEF Scans!Goes, Scans!scanVars, Scans!sharedVars
<1>1. ScanTypeOK'
  <2>1. alone' \in [Callers -> BOOLEAN]
    BY WatchKeepsAloneIsAlone DEF ScanInv, ScanTypeOK
  <2>2. \A d \in Callers : IsFiniteSet(read'[d])
    BY FS_EmptySet DEF ScanInv, ScanTypeOK, Scans!openedFilesReturns
  <2> QED BY <2>1, <2>2 DEF ScanInv, ScanTypeOK, Places, Scans!openedFilesReturns
<1>2. PointsToALiveCall'
  BY DEF ScanInv, ScanTypeOK, PointsToALiveCall, Scans!InTasks, Places,
         Scans!openedFilesReturns
<1>3. StartsAfresh'
  BY ProcessAssumption DEF ScanInv, ScanTypeOK, StartsAfresh, PointsToALiveCall,
                           Scans!InTasks, Places, Scans!openedFilesReturns
<1>4. ASSUME NEW d \in Callers PROVE ListsRight(d)'
  <2>1. CASE d = c
    BY <2>1 DEF ScanInv, ScanTypeOK, ListsRight, Scans!InTasks, Scans!openedFilesReturns
  <2>2. CASE d # c
    BY <2>2, ListsUndisturbed DEF ScanInv, ScanTypeOK, Scans!InTasks,
                                  Scans!openedFilesReturns
  <2> QED BY <2>1, <2>2
<1>5. ASSUME NEW d \in Callers PROVE CountsRight(d)'
  <2>1. CASE d = c
    BY <2>1 DEF ScanInv, ScanTypeOK, CountsRight, Scans!openedFilesReturns
  <2>2. CASE d # c
    BY <2>2, CountsUndisturbed DEF ScanInv, ScanTypeOK, Scans!openedFilesReturns
  <2> QED BY <2>1, <2>2
<1> QED BY <1>1, <1>2, <1>3, <1>4, <1>5, WatchKeepsAloneIsAlone DEF ScanInv, ScanTypeOK

LEMMA ThreadsKeepsScanInv ==
    ASSUME ScanInv, NEW c \in Callers, Scans!threads(c), Scans!Watch
    PROVE  ScanInv'
<1> USE DEF Scans!Goes, Scans!scanVars, Scans!sharedVars
<1>1. ScanTypeOK'
  <2>1. alone' \in [Callers -> BOOLEAN]
    BY WatchKeepsAloneIsAlone DEF ScanInv, ScanTypeOK
  <2>2. \A d \in Callers : IsFiniteSet(read'[d])
    BY DEF ScanInv, ScanTypeOK, Scans!threads, Scans!opens
  <2> QED BY <2>1, <2>2 DEF ScanInv, ScanTypeOK, Places, Scans!threads, Scans!opens
<1>2. PointsToALiveCall'
  BY DEF ScanInv, ScanTypeOK, PointsToALiveCall, Scans!InTasks, Places,
         Scans!threads, Scans!opens
<1>3. StartsAfresh'
  BY ProcessAssumption DEF ScanInv, ScanTypeOK, StartsAfresh, PointsToALiveCall,
                           Scans!InTasks, Places, Scans!threads, Scans!opens
<1>4. ASSUME NEW d \in Callers PROVE ListsRight(d)'
  <2>1. CASE d = c
    BY <2>1 DEF ScanInv, ScanTypeOK, StartsAfresh, ListsRight, Scans!InTasks,
                Scans!NoIds, Ids, Scans!threads, Scans!opens
  <2>2. CASE d # c
    <3>1. at'[d] = at[d] /\ (Scans!InTasks(at[c]) \/ Scans!InTasks(at'[c]))
      BY <2>2 DEF ScanInv, ScanTypeOK, Scans!InTasks, Places, Scans!threads, Scans!opens
    <3>2. alone'[d] => ~ Scans!InTasks(at'[d])
      BY <2>2, <3>1, NoCompany
    <3> QED BY <3>2 DEF ListsRight
  <2> QED BY <2>1, <2>2
<1>5. ASSUME NEW d \in Callers PROVE CountsRight(d)'
  <2>1. CASE d = c
    BY <2>1 DEF ScanInv, ScanTypeOK, CountsRight, Scans!threads, Scans!opens
  <2>2. CASE d # c
    BY <2>2, CountsUndisturbed DEF ScanInv, ScanTypeOK, Scans!threads, Scans!opens
  <2> QED BY <2>1, <2>2
<1> QED BY <1>1, <1>2, <1>3, <1>4, <1>5, WatchKeepsAloneIsAlone DEF ScanInv, ScanTypeOK

LEMMA TaskDirFilterKeepsScanInv ==
    ASSUME ScanInv, NEW c \in Callers, Scans!taskDirFilter(c), Scans!Watch
    PROVE  ScanInv'
<1> USE DEF Scans!Goes, Scans!scanVars, Scans!sharedVars
<1>entry. PICK e \in Tasks \ read[c] :
             /\ read' = [read EXCEPT ![c] = @ \cup {e}]
             /\ \/ t_pids # NULL /\ result' = [result EXCEPT ![t_pids][e] = @ + 1]
                \/ t_pids # c /\ UNCHANGED result
  BY DEF Scans!taskDirFilter, Scans!reads
<1>id. e \in Ids
  BY DEF Tasks, Ids
<1>1. ScanTypeOK'
  <2>1. alone' \in [Callers -> BOOLEAN]
    BY WatchKeepsAloneIsAlone DEF ScanInv, ScanTypeOK
  <2>2. \A d \in Callers : IsFiniteSet(read'[d])
    BY <1>entry, FS_AddElement DEF ScanInv, ScanTypeOK
  <2>3. read' \in [Callers -> SUBSET (Fds \cup {1} \cup Ids)]
    BY <1>entry, <1>id DEF ScanInv, ScanTypeOK
  <2>4. result' \in [Callers -> [Ids -> Nat]]
    <3>1. CASE UNCHANGED result
      BY <3>1 DEF ScanInv, ScanTypeOK
    <3>2. CASE t_pids # NULL /\ result' = [result EXCEPT ![t_pids][e] = @ + 1]
      <4>1. t_pids \in Callers /\ result[t_pids] \in [Ids -> Nat]
        BY <3>2 DEF ScanInv, ScanTypeOK
      <4>2. [result[t_pids] EXCEPT ![e] = @ + 1] \in [Ids -> Nat]
        BY <1>id, <4>1
      <4> QED BY <3>2, <4>1, <4>2 DEF ScanInv, ScanTypeOK
    <3> QED BY <1>entry, <3>1, <3>2
  <2> QED BY <2>1, <2>2, <2>3, <2>4 DEF ScanInv, ScanTypeOK, Scans!taskDirFilter
<1>2. PointsToALiveCall'
  BY DEF ScanInv, ScanTypeOK, PointsToALiveCall, Scans!InTasks, Places,
         Scans!taskDirFilter, Scans!reads
<1>3. StartsAfresh'
  BY ProcessAssumption DEF ScanInv, ScanTypeOK, StartsAfresh, PointsToALiveCall,
                           Scans!InTasks, Places, Scans!taskDirFilter, Scans!reads
<1>4. ASSUME NEW d \in Callers PROVE ListsRight(d)'
  <2>1. CASE d = c
    <3>1. alone'[c] => alone[c]
      BY <2>1, WatchKeepsAloneIsAlone
         DEF ScanInv, ScanTypeOK, Scans!taskDirFilter, Scans!reads
    <3>2. alone'[c] =>
            /\ t_pids = c
            /\ result[c] = [i \in Ids |-> IF i \in read[c] THEN 1 ELSE 0]
      BY <3>1 DEF ScanInv, ListsRight, Scans!InTasks, Scans!taskDirFilter
    <3>3. t_pids' = t_pids
      BY DEF Scans!taskDirFilter
    <3>4. read'[c] = read[c] \cup {e}
      BY <1>entry DEF ScanInv, ScanTypeOK
    <3>5. t_pids = c => result'[c] = [result[c] EXCEPT ![e] = @ + 1]
      BY <1>entry DEF ScanInv, ScanTypeOK
    <3>6. e \notin read[c]
      BY <1>entry
    <3>7. alone'[c] => result'[c] = [i \in Ids |-> IF i \in read'[c] THEN 1 ELSE 0]
      <4> SUFFICES ASSUME alone'[c]
                   PROVE  result'[c] = [i \in Ids |-> IF i \in read'[c] THEN 1 ELSE 0]
        OBVIOUS
      <4> DEFINE once == [i \in Ids |-> IF i \in read[c] THEN 1 ELSE 0]
      <4>1. result'[c] = [once EXCEPT ![e] = @ + 1]
        BY <3>2, <3>5
      <4>2. once[e] + 1 = 1
        BY <1>id, <3>6
      <4>3. result'[c] = [once EXCEPT ![e] = 1]
        BY <4>1, <4>2
      <4> QED BY <1>id, <3>4, <4>3
    <3> QED BY <2>1, <3>2, <3>3, <3>7 DEF ListsRight
  <2>2. CASE d # c
    <3>1. at'[d] = at[d] /\ (Scans!InTasks(at[c]) \/ Scans!InTasks(at'[c]))
      BY <2>2 DEF ScanInv, ScanTypeOK, Scans!InTasks, Places, Scans!taskDirFilter,
                  Scans!reads
    <3>2. alone'[d] => ~ Scans!InTasks(at'[d])
      BY <2>2, <3>1, NoCompany
    <3> QED BY <3>2 DEF ListsRight
  <2> QED BY <2>1, <2>2
<1>5. ASSUME NEW d \in Callers PROVE CountsRight(d)'
  <2>1. CASE d = c
    BY <2>1 DEF ScanInv, ScanTypeOK, CountsRight, Scans!taskDirFilter, Scans!reads
  <2>2. CASE d # c
    BY <2>2, CountsUndisturbed DEF ScanInv, ScanTypeOK, Scans!taskDirFilter, Scans!reads
  <2> QED BY <2>1, <2>2
<1> QED BY <1>1, <1>2, <1>3, <1>4, <1>5, WatchKeepsAloneIsAlone DEF ScanInv, ScanTypeOK

LEMMA TasksScannedKeepsScanInv ==
    ASSUME ScanInv, NEW c \in Callers, Scans!tasksScanned(c), Scans!Watch
    PROVE  ScanInv'
<1> USE DEF Scans!Goes, Scans!scanVars, Scans!sharedVars
<1>1. ScanTypeOK'
  <2>1. alone' \in [Callers -> BOOLEAN]
    BY WatchKeepsAloneIsAlone DEF ScanInv, ScanTypeOK
  <2>2. \A d \in Callers : IsFiniteSet(read'[d])
    BY DEF ScanInv, ScanTypeOK, Scans!tasksScanned, Scans!closes
  <2> QED BY <2>1, <2>2 DEF ScanInv, ScanTypeOK, Places, Scans!tasksScanned, Scans!closes
<1>2. PointsToALiveCall'
  BY DEF ScanInv, ScanTypeOK, PointsToALiveCall, Scans!InTasks, Places,
         Scans!tasksScanned, Scans!closes
<1>3. StartsAfresh'
  BY ProcessAssumption DEF ScanInv, ScanTypeOK, StartsAfresh, PointsToALiveCall,
                           Scans!InTasks, Places, Scans!tasksScanned, Scans!closes
<1>4. ASSUME NEW d \in Callers PROVE ListsRight(d)'
  BY ListsUndisturbed DEF ScanInv, ScanTypeOK, Scans!InTasks, Scans!tasksScanned,
                          Scans!closes
<1>5. ASSUME NEW d \in Callers PROVE CountsRight(d)'
  <2>1. CASE d = c
    BY <2>1 DEF ScanInv, ScanTypeOK, CountsRight, Scans!tasksScanned, Scans!closes
  <2>2. CASE d # c
    BY <2>2, CountsUndisturbed DEF ScanInv, ScanTypeOK, Scans!tasksScanned, Scans!closes
  <2> QED BY <2>1, <2>2
<1> QED BY <1>1, <1>2, <1>3, <1>4, <1>5, WatchKeepsAloneIsAlone DEF ScanInv, ScanTypeOK

LEMMA ThreadsReturnsKeepsScanInv ==
    ASSUME ScanInv, NEW c \in Callers, Scans!threadsReturns(c), Scans!Watch
    PROVE  ScanInv'
<1> USE DEF Scans!Goes, Scans!scanVars, Scans!sharedVars
<1>1. ScanTypeOK'
  <2>1. alone' \in [Callers -> BOOLEAN]
    BY WatchKeepsAloneIsAlone DEF ScanInv, ScanTypeOK
  <2>2. \A d \in Callers : IsFiniteSet(read'[d])
    BY FS_EmptySet DEF ScanInv, ScanTypeOK, Scans!threadsReturns
  <2> QED BY <2>1, <2>2 DEF ScanInv, ScanTypeOK, Places, Scans!NoIds, Ids,
                            Scans!threadsReturns
<1>2. PointsToALiveCall'
  BY DEF ScanInv, ScanTypeOK, PointsToALiveCall, Scans!InTasks, Places,
         Scans!threadsReturns
<1>3. StartsAfresh'
  BY ProcessAssumption DEF ScanInv, ScanTypeOK, StartsAfresh, PointsToALiveCall,
                           Scans!InTasks, Places, Scans!threadsReturns
<1>4. ASSUME NEW d \in Callers PROVE ListsRight(d)'
  <2>1. CASE d = c
    BY <2>1 DEF ScanInv, ScanTypeOK, ListsRight, Scans!InTasks, Scans!threadsReturns
  <2>2. CASE d # c
    <3>1. at'[d] = at[d] /\ (Scans!InTasks(at[c]) \/ Scans!InTasks(at'[c]))
      BY <2>2 DEF ScanInv, ScanTypeOK, Scans!InTasks, Places, Scans!threadsReturns
    <3>2. alone'[d] => ~ Scans!InTasks(at'[d])
      BY <2>2, <3>1, NoCompany
    <3> QED BY <3>2 DEF ListsRight
  <2> QED BY <2>1, <2>2
<1>5. ASSUME NEW d \in Callers PROVE CountsRight(d)'
  <2>1. CASE d = c
    BY <2>1 DEF ScanInv, ScanTypeOK, CountsRight, Scans!threadsReturns
  <2>2. CASE d # c
    BY <2>2, CountsUndisturbed DEF ScanInv, ScanTypeOK, Scans!threadsReturns
  <2> QED BY <2>1, <2>2
<1> QED BY <1>1, <1>2, <1>3, <1>4, <1>5, WatchKeepsAloneIsAlone DEF ScanInv, ScanTypeOK

\* Steps that are not a call's: those of Thread objects, and of the rest of
\* the process.
LEMMA OthersKeepScanInv ==
    ASSUME ScanInv, Scans!Watch,
           UNCHANGED <<t_numOpenedFiles, t_pids, at, read, reg, result>>,
           fds' \subseteq Fds \cup {1}
    PROVE  ScanInv'
<1>1. alone' \in [Callers -> BOOLEAN] /\ AloneIsAlone'
  BY WatchKeepsAloneIsAlone DEF ScanInv, ScanTypeOK
<1>2. \A d \in Callers : ListsRight(d)'
  BY ListsUndisturbed
<1>3. \A d \in Callers : CountsRight(d)'
  BY CountsUndisturbed
<1> QED BY <1>1, <1>2, <1>3 DEF ScanInv, ScanTypeOK, PointsToALiveCall, StartsAfresh

LEMMA ScanInvInitially == ProcessInit => ScanInv
<1> SUFFICES ASSUME ProcessInit PROVE ScanInv
  OBVIOUS
<1> USE DEF ProcessInit, Scans!Init
<1>1. ScanTypeOK
  BY FS_EmptySet DEF ScanTypeOK, Places, Scans!NoIds, Ids
<1>2. PointsToALiveCall /\ StartsAfresh
  BY DEF PointsToALiveCall, StartsAfresh
<1>3. AloneIsAlone
  BY DEF AloneIsAlone, Scans!InFiles, Scans!InTasks
<1>4. \A c \in Callers : ListsRight(c) /\ CountsRight(c)
  BY DEF ListsRight, CountsRight, Scans!InTasks
<1> QED BY <1>1, <1>2, <1>3, <1>4 DEF ScanInv

LEMMA ScanInvInductive == ProcessSpec => []ScanInv
<1>1. ScanInv /\ [ProcessNext]_<<vars, Scans!procVars>> => ScanInv'
  <2> SUFFICES ASSUME ScanInv, [ProcessNext]_<<vars, Scans!procVars>> PROVE ScanInv'
    OBVIOUS
  <2> USE DEF Scans!scanVars, Scans!sharedVars
  <2>1. CASE ThreadStep
    BY <2>1, OthersKeepScanInv DEF ThreadStep, ScanInv, ScanTypeOK
  <2>2. ASSUME NEW c \in Callers, Scans!Calls(c), Scans!Watch PROVE ScanInv'
    BY <2>2, OpenedFilesKeepsScanInv, FdDirFilterKeepsScanInv, StoresCountKeepsScanInv,
       FilesScannedKeepsScanInv, OpenedFilesReturnsKeepsScanInv, ThreadsKeepsScanInv,
       TaskDirFilterKeepsScanInv, TasksScannedKeepsScanInv, ThreadsReturnsKeepsScanInv
       DEF Scans!Calls
  <2>3. CASE Scans!opensFile /\ Scans!Watch
    BY <2>3, OthersKeepScanInv DEF Scans!opensFile, ScanInv, ScanTypeOK
  <2>4. CASE Scans!closesFile /\ Scans!Watch
    BY <2>4, OthersKeepScanInv DEF Scans!closesFile, ScanInv, ScanTypeOK
  <2>5. CASE UNCHANGED <<vars, Scans!procVars>>
    BY <2>5 DEF Scans!procVars, Scans!watchVars, ScanInv, ScanTypeOK, PointsToALiveCall,
                StartsAfresh, AloneIsAlone, ListsRight, CountsRight
  <2> QED BY <2>1, <2>2, <2>3, <2>4, <2>5 DEF ProcessNext, ProcessStep, Scans!Next
<1> QED BY <1>1, ScanInvInitially, PTL DEF ProcessSpec

\* A call of threads() or openedFiles() that no call of the same function
\* overlaps lists, or counts, each entry it has read, once; and t_pids never
\* points to the vector of a call that is over.
THEOREM ScansAreRight == ProcessSpec => []RightWhenAlone
<1>1. ScanInv => RightWhenAlone
  <2> SUFFICES ASSUME ScanInv PROVE RightWhenAlone
    OBVIOUS
  <2>1. t_pids # NULL => Scans!InTasks(at[t_pids])
    BY DEF ScanInv, PointsToALiveCall
  <2>2. ASSUME NEW c \in Callers, alone[c], Scans!InTasks(at[c])
        PROVE  /\ t_pids = c
               /\ result[c] = [i \in Callers \cup Objects |-> IF i \in read[c] THEN 1 ELSE 0]
    BY <2>2 DEF ScanInv, ListsRight, Ids
  <2>3. ASSUME NEW c \in Callers, alone[c], at[c] \in {"files", "counted"}
        PROVE  t_numOpenedFiles = Cardinality(read[c])
    BY <2>3 DEF ScanInv, CountsRight
  <2>4. \A c \in Callers : Scans!Cardinality(read[c]) = Cardinality(read[c])
    BY Zenon DEF Cardinality, Scans!Cardinality
  <2> QED BY <2>1, <2>2, <2>3, <2>4 DEF RightWhenAlone, Scans!RightWhenAlone
<1> QED BY <1>1, ScanInvInductive, PTL
=============================================================================
