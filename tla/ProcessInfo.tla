---------------------------- MODULE ProcessInfo ----------------------------
(***************************************************************************)
(* ProcessInfo::openedFiles() and threads() (asynlog/ProcessInfo.cc): they *)
(* scan /proc/self/fd and /proc/self/task with a filter that keeps no      *)
(* entry, but counts it in t_numOpenedFiles or pushes it to the vector     *)
(* t_pids points to.  Both were one per thread once (the __thread in front *)
(* of them is commented out) and are shared by all callers now.            *)
(*                                                                         *)
(* While a directory is read its entries come and go: as POSIX has it, an  *)
(* entry that is there from opendir() on is read, once; one that is added  *)
(* or removed meanwhile may be read.  A scan needs a descriptor of its     *)
(* own, which is an entry of /proc/self/fd like the others.                *)
(***************************************************************************)
EXTENDS Integers, FiniteSets

CONSTANTS
    Callers,    \* the threads that call these functions, by their ids
    Fds,        \* the descriptors the process may have, above 0
    Ids,        \* the ids that threads may have
    MaxCount,   \* bound: calls that overlap again and again count without end
    NULL

VARIABLES
    tasks,              \* the ids of the threads of the process
    fds,                \* its open descriptors
    t_numOpenedFiles,
    t_pids,             \* NULL, or the caller whose vector it points to
    at,                 \* where each caller is
    dir,                \* the descriptor its scan has opened, or 0
    read,               \* the entries its scan has read
    due,                \* those there ever since it began, still to be read
    reg,                \* t_numOpenedFiles as loaded by its ++
    result,             \* how often threads()'s vector has each id; it is
                        \* sorted before it is returned
    crashed,
    alone               \* history: no call of the same function overlapped it

scanVars == <<dir, read, reg, result>>
sharedVars == <<t_numOpenedFiles, t_pids, crashed>>
watchVars == <<due, alone>>
procVars == <<fds, sharedVars, at, scanVars, watchVars>>

NoIds == [i \in Ids |-> 0]

Init ==
    /\ fds = {1}
    /\ t_numOpenedFiles = 0 /\ t_pids = NULL
    /\ at = [c \in Callers |-> "out"]
    /\ dir = [c \in Callers |-> 0]
    /\ read = [c \in Callers |-> {}]
    /\ reg = [c \in Callers |-> 0]
    /\ result = [c \in Callers |-> NoIds]
    /\ crashed = FALSE
    /\ due = [c \in Callers |-> {}]
    /\ alone = [c \in Callers |-> TRUE]

InFiles(place) == place \in {"files", "store", "counted"}
InTasks(place) == place \in {"tasks", "listed"}

Goes(c, place) == at' = [at EXCEPT ![c] = place]

\* scandir(): opendir(), with the lowest descriptor that is free.  When there
\* is none it returns -1 at once, which nobody looks at.
opens(c, place, afterwards) ==
    \/ /\ fds = Fds
       /\ UNCHANGED <<fds, dir>>
       /\ Goes(c, afterwards)
    \/ \E d \in Fds \ fds :
         /\ \A e \in Fds \ fds : d <= e
         /\ fds' = fds \cup {d} /\ dir' = [dir EXCEPT ![c] = d]
         /\ Goes(c, place)

\* readdir() returns entry e.
reads(c, entries, e) ==
    /\ e \in entries \ read[c]
    /\ read' = [read EXCEPT ![c] = @ \cup {e}]

\* readdir() has no more entries: closedir().
closes(c) ==
    /\ due[c] = {}
    /\ fds' = fds \ {dir[c]}
    /\ dir' = [dir EXCEPT ![c] = 0]

-----------------------------------------------------------------------------
(* openedFiles() *)

CountGoesOn == t_numOpenedFiles   \* (mutation: not reset)
CountAtStart == 0

openedFiles(c) ==
    /\ at[c] = "out"
    /\ t_numOpenedFiles' = CountAtStart
    /\ opens(c, "files", "counted")
    /\ UNCHANGED <<t_pids, crashed, read, reg, result>>

\* fdDirFilter(): ++t_numOpenedFiles, a load ...
fdDirFilter(c) ==
    /\ at[c] = "files"
    /\ \E e \in fds : reads(c, fds, e)
    /\ reg' = [reg EXCEPT ![c] = t_numOpenedFiles]
    /\ Goes(c, "store")
    /\ UNCHANGED <<fds, sharedVars, dir, result>>

\* ... and a store.
storesCount(c) ==
    /\ at[c] = "store" /\ reg[c] < MaxCount
    /\ t_numOpenedFiles' = reg[c] + 1
    /\ reg' = [reg EXCEPT ![c] = 0]
    /\ Goes(c, "files")
    /\ UNCHANGED <<fds, t_pids, crashed, dir, read, result>>

filesScanned(c) ==
    /\ at[c] = "files"
    /\ closes(c)
    /\ Goes(c, "counted")
    /\ UNCHANGED <<sharedVars, read, reg, result>>

\* return t_numOpenedFiles
openedFilesReturns(c) ==
    /\ at[c] = "counted"
    /\ read' = [read EXCEPT ![c] = {}]
    /\ Goes(c, "out")
    /\ UNCHANGED <<fds, sharedVars, dir, reg, result>>

-----------------------------------------------------------------------------
(* threads() *)

threads(c) ==
    /\ at[c] = "out"
    /\ t_pids' = c
    /\ opens(c, "tasks", "listed")
    /\ UNCHANGED <<t_numOpenedFiles, crashed, read, reg, result>>

\* taskDirFilter(): t_pids->push_back().  Another call may have set t_pids to
\* NULL, or to its own vector; two that push to one vector can corrupt it.
taskDirFilter(c) ==
    /\ at[c] = "tasks"
    /\ \E e \in tasks :
         /\ reads(c, tasks, e)
         /\ \/ /\ t_pids # NULL
               /\ result' = [result EXCEPT ![t_pids][e] = @ + 1]
               /\ UNCHANGED crashed
            \/ /\ t_pids # c
               /\ crashed' = TRUE
               /\ UNCHANGED result
    /\ UNCHANGED <<fds, t_numOpenedFiles, t_pids, at, dir, reg>>

tasksScanned(c) ==
    /\ at[c] = "tasks"
    /\ closes(c)
    /\ Goes(c, "listed")
    /\ UNCHANGED <<sharedVars, read, reg, result>>

\* t_pids = NULL; the vector is sorted and returned.
threadsReturns(c) ==
    /\ at[c] = "listed"
    /\ t_pids' = NULL
    /\ result' = [result EXCEPT ![c] = NoIds]
    /\ read' = [read EXCEPT ![c] = {}]
    /\ Goes(c, "out")
    /\ UNCHANGED <<fds, t_numOpenedFiles, crashed, dir, reg>>

-----------------------------------------------------------------------------
(* The rest of the process. *)

opensFile ==
    /\ \E d \in Fds \ fds : \A e \in Fds \ fds : d <= e /\ fds' = fds \cup {d}
    /\ UNCHANGED <<sharedVars, at, scanVars>>

closesFile ==
    /\ \E d \in fds : d # 1 /\ (\A c \in Callers : dir[c] # d) /\ fds' = fds \ {d}
    /\ UNCHANGED <<sharedVars, at, scanVars>>

\* What is in the directory c is reading, in the next state.
EntriesNext(c) == IF InFiles(at'[c]) THEN fds' ELSE tasks'

\* Kept up with every step of the process, those that change tasks included.
Watch ==
    /\ due' = [c \in Callers |->
         IF dir'[c] = 0 THEN {}
         ELSE IF dir[c] = 0 THEN EntriesNext(c)
         ELSE (due[c] \cap EntriesNext(c)) \ read'[c]]
    /\ alone' = [c \in Callers |->
         at'[c] = "out" \/
         (alone[c] /\ \A d \in Callers \ {c} :
                        /\ InFiles(at'[c]) => ~ InFiles(at'[d])
                        /\ InTasks(at'[c]) => ~ InTasks(at'[d]))]

Calls(c) ==
    \/ openedFiles(c) \/ fdDirFilter(c) \/ storesCount(c) \/ filesScanned(c)
    \/ openedFilesReturns(c)
    \/ threads(c) \/ taskDirFilter(c) \/ tasksScanned(c) \/ threadsReturns(c)

Next ==
    /\ ~ crashed
    /\ (\E c \in Callers : Calls(c)) \/ opensFile \/ closesFile
    /\ Watch

-----------------------------------------------------------------------------
(* Properties. *)

\* A call that no call of the same function overlaps finds each entry it has
\* read, so all that were there ever since it began, once: threads() in its
\* own vector, openedFiles() in its count.  The scans of the other function,
\* the descriptors they open and the threads that come and go do not disturb
\* it.  And however calls overlap, t_pids never points to the vector of a
\* call that has returned.
RightWhenAlone ==
    /\ t_pids # NULL => InTasks(at[t_pids])
    /\ \A c \in Callers : alone[c] =>
           /\ InTasks(at[c]) =>
                /\ t_pids = c
                /\ result[c] = [i \in Ids |-> IF i \in read[c] THEN 1 ELSE 0]
           /\ at[c] \in {"files", "counted"} => t_numOpenedFiles = Cardinality(read[c])
=============================================================================
