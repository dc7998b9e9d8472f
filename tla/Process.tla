------------------------------ MODULE Process ------------------------------
(***************************************************************************)
(* The threads of a process: those that Thread objects start, and others   *)
(* that list the threads and count the open files meanwhile.  What threads *)
(* exist is what Thread objects run, besides the callers.                  *)
(***************************************************************************)
EXTENDS Thread

CONSTANTS
    Callers,    \* the threads that call openedFiles() and threads()
    Fds,        \* the descriptors the process may have
    MaxCount,   \* bound: see ProcessInfo
    NULL

\* No thread is mistaken for the pointer to none.
ASSUME ProcessAssumption == NULL \notin Callers

VARIABLES fds, t_numOpenedFiles, t_pids, at, dir, read, reg, result, crashed,
          due, alone

\* The threads of Thread objects that are running, and the callers.
Tasks == Callers \cup {o \in Objects : thread[o] \in {"born", "hasTid", "func"}}

Scans == INSTANCE ProcessInfo WITH Ids <- Callers \cup Objects, tasks <- Tasks

ThreadStep ==
    /\ ~ crashed /\ Next
    /\ UNCHANGED <<fds, t_numOpenedFiles, t_pids, at, dir, read, reg, result, crashed>>
    /\ Scans!Watch

ProcessStep == UNCHANGED vars /\ Scans!Next

ProcessInit == Init /\ Scans!Init

ProcessNext == ThreadStep \/ ProcessStep

ProcessSpec == ProcessInit /\ [][ProcessNext]_<<vars, Scans!procVars>>

\* What ProcessInfo says of overlapping calls.
RightWhenAlone == Scans!RightWhenAlone
=============================================================================
