---------------------------- MODULE AsyncLogging ----------------------------
(***************************************************************************)
(* AsyncLogging (asynlog/AsyncLogging.h, .cc): any number of front-end     *)
(* threads append() log lines to a buffer guarded by mutex_; one backend   *)
(* thread, threadFunc(), swaps the filled buffers out and writes them to a *)
(* LogFile; the owner of the object start()s and stop()s the backend.      *)
(*                                                                         *)
(* A log line is its number in the order of the append() calls, so that    *)
(* order and loss can be stated; the LogFile is the sequence of what was   *)
(* handed to it and how much of that has been flushed.  append() runs      *)
(* wholly under mutex_ and is one action, as is each critical section of   *)
(* the backend; the rest of the backend's loop touches only its own state. *)
(***************************************************************************)
EXTENDS FixedBuffer, SequencesExt

CONSTANTS
    MessageLens,       \* the lengths in bytes a log line can have
    MaxBuffersToWrite, \* the batch size above which buffers are dropped; 25
    NoBuffer,          \* an empty unique_ptr
    MaxAppends         \* bound of the model: append() calls per behaviour

ASSUME AsyncAssumption ==
    /\ MessageLens \subseteq Nat
    /\ MaxBuffersToWrite \in Nat /\ MaxBuffersToWrite >= 2
    /\ NoBuffer \notin Buffers(Nat)
    /\ MaxAppends \in Nat

\* What "Dropped log messages at ..." leaves in the file.
DropNotice == 0

VARIABLES
    running_,        \* plain bool, written by the owner, read by the backend
    currentBuffer_,  \* guarded by mutex_: the buffer being filled
    nextBuffer_,     \* guarded by mutex_: its spare
    buffers_,        \* guarded by mutex_: the full ones
    threadLatch,     \* count of the CountDownLatch inside Thread::start()
    latch_,          \* count of AsyncLogging::latch_
    owner,           \* where the thread that owns the object is
    pc,              \* where the backend thread is
    newBuffer1,      \* local to threadFunc()
    newBuffer2,
    buffersToWrite,
    i,               \* the write loop's index
    file,            \* what output.append() has been given
    flushed,         \* how much of it has been flushed
    appended,        \* history: append() calls so far
    refused,         \* history: lines longer than an empty buffer takes
    dropped          \* history: lines erased as an excess of buffers

frontVars == <<currentBuffer_, nextBuffer_, buffers_>>
backVars  == <<newBuffer1, newBuffer2, buffersToWrite, i>>
fileVars  == <<file, flushed>>
ownerVars == <<running_, threadLatch, latch_, owner>>
histVars  == <<appended, refused, dropped>>
vars == <<frontVars, backVars, fileVars, ownerVars, histVars, pc>>

-----------------------------------------------------------------------------
\* AsyncLogging(): two empty buffers, a latch at one, no thread yet.
Init ==
    /\ running_ = FALSE
    /\ currentBuffer_ = EmptyBuffer /\ nextBuffer_ = EmptyBuffer
    /\ buffers_ = <<>>
    /\ threadLatch = 1 /\ latch_ = 1
    /\ owner = "idle" /\ pc = "unborn"
    /\ newBuffer1 = NoBuffer /\ newBuffer2 = NoBuffer
    /\ buffersToWrite = <<>> /\ i = 1
    /\ file = <<>> /\ flushed = 0
    /\ appended = 0 /\ refused = {} /\ dropped = {}

\* cond_.notify(): moves the backend out of timeWait(), if it is there; it
\* still has to get mutex_ back.
Notified(at) == IF at = "timeWait" THEN "woken" ELSE at

-----------------------------------------------------------------------------
(* append(logline, len), by any thread. *)

appendFits(len) ==
    /\ Avail(currentBuffer_) > len
    /\ currentBuffer_' = AppendTo(currentBuffer_, appended + 1, len)
    /\ UNCHANGED <<nextBuffer_, buffers_, refused, pc>>

\* The buffer just taken over, from nextBuffer_ or from new, is empty.  A
\* line it has no room for is discarded by FixedBuffer::append() in silence.
appendSwitches(len) ==
    LET fresh == IF nextBuffer_ # NoBuffer THEN nextBuffer_ ELSE EmptyBuffer
    IN  /\ ~ Avail(currentBuffer_) > len
        /\ buffers_' = Append(buffers_, currentBuffer_)
        /\ nextBuffer_' = NoBuffer
        /\ currentBuffer_' = AppendTo(fresh, appended + 1, len)
        /\ refused' = IF Avail(fresh) > len THEN refused
                      ELSE refused \cup {appended + 1}
        /\ pc' = Notified(pc)

append(len) ==
    /\ appended < MaxAppends
    /\ appended' = appended + 1
    /\ appendFits(len) \/ appendSwitches(len)
    /\ UNCHANGED <<backVars, fileVars, ownerVars, dropped>>

-----------------------------------------------------------------------------
(* The owner: start(), stop(). *)

\* start() up to the wait inside Thread::start(); pthread_create works.
start ==
    /\ owner = "idle"
    /\ running_' = TRUE
    /\ owner' = "threadLatch" /\ pc' = "born"
    /\ UNCHANGED <<frontVars, backVars, fileVars, histVars, threadLatch, latch_>>

\* pthread_create fails: Thread::start() returns without a thread, and the
\* owner goes on to wait for latch_ all the same.
startFails ==
    /\ owner = "idle"
    /\ running_' = TRUE
    /\ owner' = "latch"
    /\ UNCHANGED <<frontVars, backVars, fileVars, histVars, threadLatch, latch_, pc>>

threadStarted ==
    /\ owner = "threadLatch" /\ threadLatch = 0
    /\ owner' = "latch"
    /\ UNCHANGED <<frontVars, backVars, fileVars, histVars, pc,
                   running_, threadLatch, latch_>>

startReturns ==
    /\ owner = "latch" /\ latch_ = 0
    /\ owner' = "started"
    /\ UNCHANGED <<frontVars, backVars, fileVars, histVars, pc,
                   running_, threadLatch, latch_>>

\* stop(), or ~AsyncLogging(): the flag first, without mutex_ ...
stop ==
    /\ owner = "started"
    /\ running_' = FALSE /\ owner' = "notify"
    /\ UNCHANGED <<frontVars, backVars, fileVars, histVars, pc, threadLatch, latch_>>

\* ... then the notification, which a backend that is not waiting misses ...
stopNotifies ==
    /\ owner = "notify"
    /\ owner' = "join" /\ pc' = Notified(pc)
    /\ UNCHANGED <<frontVars, backVars, fileVars, histVars,
                   running_, threadLatch, latch_>>

\* ... then thread_.join().
stopReturns ==
    /\ owner = "join" /\ pc = "exited"
    /\ owner' = "stopped"
    /\ UNCHANGED <<frontVars, backVars, fileVars, histVars, pc,
                   running_, threadLatch, latch_>>

-----------------------------------------------------------------------------
(* The backend: ThreadData::runInThread(), then threadFunc(). *)

\* CountDownLatch::countDown().
CountedDown(count) == count - 1

runInThread ==
    /\ pc = "born"
    /\ threadLatch' = CountedDown(threadLatch) /\ pc' = "begin"
    /\ UNCHANGED <<frontVars, backVars, fileVars, histVars, running_, latch_, owner>>

enter ==
    /\ pc = "begin"
    /\ latch_' = CountedDown(latch_)
    /\ newBuffer1' = EmptyBuffer /\ newBuffer2' = EmptyBuffer
    /\ pc' = "test"
    /\ UNCHANGED <<frontVars, fileVars, histVars, buffersToWrite, i,
                   running_, threadLatch, owner>>

\* while (running_): read without mutex_.
loopTest ==
    /\ pc = "test" /\ running_
    /\ pc' = "lock"
    /\ UNCHANGED <<frontVars, backVars, fileVars, ownerVars, histVars>>

LoopNeverLeft == FALSE   \* (mutation: running_ read once, before the loop)

\* The loop is left: the last flush, and ~LogFile().
loopExit ==
    /\ pc = "test" /\ ~ running_
    /\ flushed' = Len(file) /\ pc' = "exited"
    /\ UNCHANGED <<frontVars, backVars, ownerVars, histVars, file>>

\* mutex_ taken and no full buffer: give mutex_ up and sleep.
timeWait ==
    /\ pc = "lock" /\ buffers_ = <<>>
    /\ pc' = "timeWait"
    /\ UNCHANGED <<frontVars, backVars, fileVars, ownerVars, histVars>>

WaitWithoutTimeout == FALSE   \* (mutation: wait() for timeWait())

\* flushInterval_ seconds are over, or the wait ends of its own accord.
timeWaitExpires ==
    /\ pc = "timeWait"
    /\ pc' = "woken"
    /\ UNCHANGED <<frontVars, backVars, fileVars, ownerVars, histVars>>

BatchOfFullBuffers == buffers_   \* (mutation: currentBuffer_ not pushed)

\* buffers_.push_back(currentBuffer_), before the swap.
Batch == Append(buffers_, currentBuffer_)

\* The rest of the critical section, mutex_ held since "lock" or regained.
swap ==
    /\ \/ pc = "lock" /\ buffers_ # <<>>
       \/ pc = "woken"
    /\ buffersToWrite' = Batch /\ buffers_' = <<>>
    /\ currentBuffer_' = newBuffer1 /\ newBuffer1' = NoBuffer
    /\ \/ /\ nextBuffer_ = NoBuffer
          /\ nextBuffer_' = newBuffer2 /\ newBuffer2' = NoBuffer
       \/ /\ nextBuffer_ # NoBuffer
          /\ UNCHANGED <<nextBuffer_, newBuffer2>>
    /\ pc' = "drop"
    /\ UNCHANGED <<fileVars, ownerVars, histVars, i>>

\* The lines in a sequence of buffers.
LinesIn(bufs) == UNION {ToSet(bufs[k].data) : k \in DOMAIN bufs}

NotAnnounced(out) == out   \* (mutation: the notice on stderr only)
Announced(out) == Append(out, DropNotice)

\* Too many buffers: keep the first two, and say so in the file.
dropExcess ==
    /\ pc = "drop"
    /\ \/ /\ Len(buffersToWrite) > MaxBuffersToWrite
          /\ file' = Announced(file)
          /\ buffersToWrite' = SubSeq(buffersToWrite, 1, 2)
          /\ dropped' = dropped \cup
                LinesIn(SubSeq(buffersToWrite, 3, Len(buffersToWrite)))
       \/ /\ Len(buffersToWrite) <= MaxBuffersToWrite
          /\ UNCHANGED <<file, buffersToWrite, dropped>>
    /\ i' = 1 /\ pc' = "write"
    /\ UNCHANGED <<frontVars, ownerVars, newBuffer1, newBuffer2, flushed,
                   appended, refused>>

writeBuffer ==
    /\ pc = "write" /\ i <= Len(buffersToWrite)
    /\ file' = file \o buffersToWrite[i].data
    /\ i' = i + 1
    /\ UNCHANGED <<frontVars, ownerVars, histVars, pc, flushed,
                   newBuffer1, newBuffer2, buffersToWrite>>

KeptOne(bufs) == SubSeq(bufs, 1, 1)   \* (mutation: resize(1))

\* buffersToWrite.resize(2), when there are more.
Kept(bufs) == IF Len(bufs) > 2 THEN SubSeq(bufs, 1, 2) ELSE bufs

\* if (!spare) { spare = move(bufs.back()); bufs.pop_back(); reset }: the
\* spare, and what is left of bufs.
Refilled(spare, bufs) == IF spare = NoBuffer THEN Reset(Last(bufs)) ELSE spare
Remaining(spare, bufs) == IF spare = NoBuffer THEN Front(bufs) ELSE bufs

recycle ==
    /\ pc = "write" /\ i > Len(buffersToWrite)
    /\ newBuffer1' = Refilled(newBuffer1, Kept(buffersToWrite))
    /\ newBuffer2' = Refilled(newBuffer2, Remaining(newBuffer1, Kept(buffersToWrite)))
    /\ buffersToWrite' = <<>> /\ i' = 1
    /\ flushed' = Len(file)
    /\ pc' = "test"
    /\ UNCHANGED <<frontVars, ownerVars, histVars, file>>

-----------------------------------------------------------------------------
ownerSteps == threadStarted \/ startReturns \/ stopNotifies \/ stopReturns

Owner == start \/ startFails \/ stop \/ ownerSteps

Backend ==
    \/ runInThread \/ enter \/ loopTest \/ loopExit \/ timeWait
    \/ timeWaitExpires \/ swap \/ dropExcess \/ writeBuffer \/ recycle

Next == Owner \/ Backend \/ \E len \in MessageLens : append(len)

Spec == Init /\ [][Next]_vars

\* A thread that can run is run in the end, a timed wait ends in the end, and
\* the calls the owner has begun go on.  Nobody has to call append(), start()
\* or stop().
Fairness == WF_vars(Backend) /\ WF_vars(ownerSteps)

FairSpec == Spec /\ Fairness

-----------------------------------------------------------------------------
(* Properties. *)

OwnerStates == {"idle", "threadLatch", "latch", "started",
                "notify", "join", "stopped"}
BackendStates == {"unborn", "born", "begin", "test", "lock", "timeWait",
                  "woken", "drop", "write", "exited"}

\* Every variable keeps its type; in particular no buffer is ever filled up
\* to its last byte, and currentBuffer_ is never null.
TypeOK ==
    /\ running_ \in BOOLEAN
    /\ currentBuffer_ \in Buffers(Nat)
    /\ nextBuffer_ \in Buffers(Nat) \cup {NoBuffer}
    /\ buffers_ \in Seq(Buffers(Nat))
    /\ threadLatch \in 0 .. 1 /\ latch_ \in 0 .. 1
    /\ owner \in OwnerStates /\ pc \in BackendStates
    /\ newBuffer1 \in Buffers(Nat) \cup {NoBuffer}
    /\ newBuffer2 \in Buffers(Nat) \cup {NoBuffer}
    /\ buffersToWrite \in Seq(Buffers(Nat))
    /\ i \in Nat \ {0}
    /\ file \in Seq(Nat) /\ flushed \in Nat
    /\ appended \in Nat /\ refused \subseteq Nat /\ dropped \subseteq Nat

CleanSpare(b) == b # NoBuffer /\ b.length = 0

\* The buffers the end of the loop takes back into newBuffer1, newBuffer2.
Missing == (IF newBuffer1 = NoBuffer THEN 1 ELSE 0)
             + (IF newBuffer2 = NoBuffer THEN 1 ELSE 0)

\* The assertions of threadFunc() hold when control is at them: running_ at
\* its entry, two clean spares and no batch at the top of the loop, a batch
\* after the swap, and as many written buffers left as spares are missing.
AssertionsHold ==
    /\ pc = "begin" => running_
    /\ pc = "test" /\ running_ =>
         CleanSpare(newBuffer1) /\ CleanSpare(newBuffer2) /\ buffersToWrite = <<>>
    /\ pc = "drop" => buffersToWrite # <<>>
    /\ pc = "write" /\ i > Len(buffersToWrite) =>
         Missing <= Len(Kept(buffersToWrite))

\* The buffers whose lines are accepted and not yet in the file, oldest
\* first: what is left of the batch, then the full ones, then the current one.
Pending ==
    (CASE pc = "drop"  -> buffersToWrite
       [] pc = "write" -> SubSeq(buffersToWrite, i, Len(buffersToWrite))
       [] OTHER        -> <<>>)
      \o Append(buffers_, currentBuffer_)

IsLine(entry) == entry # DropNotice
LinesOfFile == {line \in ToSet(file) : IsLine(line)}

\* Every line appended is in the file, or on its way, or was too long for a
\* buffer, or was dropped with an excess of buffers: none vanishes.
NothingVanishes ==
    1 .. appended = LinesOfFile \cup LinesIn(Pending) \cup refused \cup dropped

Increasing(s) ==
    \A j, k \in DOMAIN s : j < k /\ IsLine(s[j]) /\ IsLine(s[k]) => s[j] < s[k]
Precede(S, T) == \A m \in S, n \in T : m < n

\* The lines of the file, followed by those on their way to it, are in the
\* order of the append() calls, none twice, across every swap of buffers.
InOrderOnce ==
    /\ Increasing(file)
    /\ \A k \in DOMAIN Pending :
         /\ Increasing(Pending[k].data)
         /\ Precede(LinesOfFile, ToSet(Pending[k].data))
         /\ \A l \in k + 1 .. Len(Pending) :
              Precede(ToSet(Pending[k].data), ToSet(Pending[l].data))

\* Where a line was dropped, the file says so: there is a notice with only
\* older lines before it, and between it and the gap at most the lines of
\* the two buffers that were kept.
DropsAreAnnounced ==
    \A line \in dropped : \E k \in DOMAIN file :
        /\ file[k] = DropNotice
        /\ \A j \in 1 .. k - 1 : file[j] < line
        /\ Cardinality({j \in k + 1 .. Len(file) : file[j] \in 1 .. line}) <= 2 * (SIZE - 1)

\* The logger implements the abstract channel: swapping, recycling and
\* flushing buffers are invisible, and a batch gives up lines all at once.
Backlog == FlattenSeq([k \in 1 .. Len(Pending) |-> Pending[k].data])
Channel == INSTANCE LogChannel WITH
    Notice <- DropNotice,
    submitted <- appended, backlog <- Backlog, delivered <- file
ImplementsChannel == Channel!Spec

\* A line has reached the disk, or has been given up for good.
Settled(line) ==
    \/ \E k \in 1 .. flushed : file[k] = line
    \/ line \in refused \cup dropped

\* While the logger is not stopped an appended line is flushed to the file or
\* dropped in the end, even when no further line pushes its buffer out.  What
\* is appended before the batch of a round is taken is settled even if stop()
\* comes in between; only lines after that round's batch stay behind.
EventuallySettled ==
    \A line \in 1 .. MaxAppends :
        /\ (line <= appended /\ pc # "unborn") ~> (Settled(line) \/ ~ running_)
        /\ (line <= appended /\ pc \in {"lock", "timeWait", "woken"}) ~> Settled(line)

\* start() returns once its thread has been created, and stop() returns,
\* although its notification may find nobody waiting.
CallsReturn ==
    /\ (owner = "threadLatch") ~> (owner = "started")
    /\ (owner = "notify") ~> (owner = "stopped")
=============================================================================
