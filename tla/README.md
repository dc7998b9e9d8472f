# TLA+ models of simple-log

simple-log is a logging library in C++ (`src/asynlog`), with a small synchronous
logger beside it (`src/slog`). These modules model its logic, `.cfg` files check
them with TLC on small instances, and some of the properties are proved with
TLAPS for every value of the constants.

## The system

A front end (`Logger` over `LogStream`) formats a line in the thread that logs
and hands it to a global output function. `AsyncLogging` can be behind that
function: `append()` copies the line into a buffer under a mutex, and one
backend thread swaps full buffers out and writes them to a `LogFile`, which rolls
to a new file by size and by day and flushes every few seconds. Underneath are
`Thread`, `MutexLock`, `Condition`, `CountDownLatch`; beside them
`BlockingQueue`, `BoundedBlockingQueue` and `ThreadPool`, and `ProcessInfo`, which
lists threads and descriptors. Dates, timestamps, time zones, string pieces and
`ReadSmallFile` keep no state from one call to the next. `slog` writes each message
at once, through a handler that can be replaced.

| component | state | operations | interacts with | what is hard | what makes it correct |
|---|---|---|---|---|---|
| asynchronous logger | `currentBuffer_`, `nextBuffer_`, `buffers_` under `mutex_`; two spares and a batch local to the backend; `running_` | append, start, stop, threadFunc | Thread and two latches at start, `cond_`, LogFile | the swap of buffers against append; stop against the wait; overload; recycling | no line vanishes, is repeated or reordered; drops are announced; assertions hold; start and stop return |
| fixed buffer | `data_`, `cur_` | append, add, reset, avail | filled by LogStream and append() | the last byte | cursor inside the array |
| log file | `file_`, `count_`, `startOfPeriod_`, `lastRoll_`, `lastFlush_` | append, flush, rollFile | stdio, the clock, the disk | the clock is read twice in a call, ticks, is set back; crashes; blocks of stdio that end within a line; a full disk and short writes | names increase; a crash loses a tail; bounded staleness; day boundaries; the files are one sink |
| mutex, condition | the pthread mutex, `holder_` | lock, unlock, wait, timeWait, notify | all of the above | wait() goes behind `holder_`'s back | holder_ is never a thread outside |
| latch | `count_` | wait, countDown | Thread::start, AsyncLogging::start | spurious wakeups; only one notification | nobody returns early, nobody sleeps on |
| bounded queue | the deque, two conditions | put, take, timeTake | its callers | one signal per element, timeouts | nobody sleeps on an element or a place; to a consumer it is the unbounded queue |
| blocking queue | the deque, a condition | put, take | its callers | spurious wakeups | elements come out in order, and to someone who waits |
| thread | `started_`, `joined_`, `tid_`, `latch_` | start, join, destructor, the new thread | the new thread writes into the object | it may outlive the object | no dangling write; joined or detached, once |
| thread pool | deque, `threads_`, three conditions, the threads | start, stop, execute, timeTake, runInThread | Thread, tasks | workers give up after two seconds while tasks arrive; tasks run under the mutex; stop waits for a counter | tasks run one at a time, once and in order; a queued task runs, a full queue moves; stop returns |
| process information | `t_numOpenedFiles`, `t_pids`, shared by all threads | openedFiles, threads, procname, reads of /proc | the threads and descriptors of the process | scans overlap; the directory changes meanwhile | a scan that is alone is right |
| logger front end | globals `g_*`; `t_lastSecond`, `t_time` per thread; one `tid_` and `tidString_` for all | Logger(), ~Logger(), setters | output and flush functions, CurrentThread | a cache per thread against clock and zone; ids shared by threads; FATAL | current time, own id, last words written |
| stream formatting, dates, timestamps, time zones | none | conversions | front end | the smallest integer, a full buffer, negative seconds, doubled hours, files cut short | round trips; lines end; tables hold what was written |
| file reading | a descriptor, a buffer | readToString, readToBuffer | time zones, ProcessInfo | the file changes between reads | what is read is a prefix, whole if no error |
| slog | the handler | SetLogHandler, Finish, searches of StringPiece | user handlers | nesting; unsigned loop variables | handlers nest; FATAL never returns; searches agree |

The hazards, each at its line with the properties that watch it, are in
`PROJECT.json`.

## Modules

**AsyncLogging** extends **FixedBuffer**. A line is the number of its `append()`;
a buffer is the sequence of the lines in it and the position of its cursor. What
runs under `mutex_` is one action: `append` (it fits, or the buffers are switched
and the backend notified), `swap` (the rest of the backend's critical section).
`timeWait` gives the mutex up, `timeWaitExpires` stands for the timeout and for a
wakeup without a reason, `dropExcess`, `writeBuffer` and `recycle` are the parts
of the loop without the mutex. `start` and `stop` are cut wherever another thread
can act in between: `running_` is set without the mutex, then `cond_` is notified,
then the thread is joined. `Thread::start()` with its latch is included as far
as `AsyncLogging::start()` needs it, and may fail. The `LogFile` is here the
sequence of what was appended to it and how much is flushed.

**LogChannel** is what a logging backend promises: lines come out in the order
they went in, the backlog may lose a run of neighbours if the output says so.
`ImplementsChannel` is the refinement: the backlog is what is left of the batch,
then `buffers_`, then `currentBuffer_`.

**LogFile** has one action per call (each is under the mutex). `append` writes,
then rolls when too long, or counts and looks at the clock every `checkEveryN_`
lines; the clock of that look and the one of `rollFile()` are two readings, between
which it may tick any number of times or be set back. `roll` is a call of the
public `rollFile()` from outside. Each line has its time, and whether all of it was
written, and each file its name (a second). stdio empties its buffer of 64 KB at any
byte (`HandedOn`): of a file, `onDisk` whole lines are on the disk, and when it is
`torn` a part of the next one. A crash is no action: a crash is a look at these two,
which `CrashLosesOnlyATail` takes in every state. When `fopen()` fails in a roll,
`assert(fp_)` ends the process (`aborted`). The disk can be full
for a while: `Damaged` is what a write that fails leaves of the stdio buffer, `Rest`
what the loop of `AppendFile::append()` leaves of the line. **LogSink** is what a sink that
can break promises: lines in order, none twice, all of them while it is not
broken, and what is flushed stays. `ImplementsSink` concatenates the files.

**MutexLock** has `lock()` and `unlock()` in their two steps each (the pthread
mutex, `holder_`), `wait()` and its return. **CountDownLatch** has whole critical
sections as actions and is the specification of a latch. **LatchOnMutex** is the code
of the latch statement by statement, with variables and actions of its own: the look
at `count_` and the sleep, the decrement and the notification are steps apart, and
only the mutex keeps others out between them. `ImplementsLatch` maps it to
CountDownLatch (a decrement that will notify counts as having done so), and
MutexLock is instantiated over it for what is claimed of `holder_`.

**BoundedBlockingQueue** and **ThreadPool** have one action per pass through a
critical section, from getting the mutex to the next wait or to the return. A
notification wakes any one sleeper; a timeout and a spurious wakeup are actions. In
ThreadPool the mutex is a variable because a worker keeps it while it runs a task
(`job`), which returns (`taskReturns`) or calls `execute()` and waits for its own
worker (`taskCallsPool`). **BlockingQueue** is the queue without a limit, and the
specification of the bounded one: `ImplementsUnbounded` forgets `notFull_`, the
limit and the timeouts.

**Thread** has the steps of the owner and of the pthread for each object.
**ProcessInfo** has the steps of `openedFiles()` and `threads()`: an entry of the
directory is read at a time, an increment of `t_numOpenedFiles` is a load and a
store, a push goes to wherever `t_pids` points by then. **Process** composes them:
the threads that are listed are those `Thread` objects run, besides the callers.

**Logger** has the life of a `Logger` object in steps: the time is taken, formatted
in the zone then set (or found in the cache), put on the stream with the `Z` or
without as the zone is at that moment (`appendTime`), `tid_` is written, spelled,
measured, copied; then the line is put out, and for FATAL flushed before `abort()`.
A line is a record of where its parts came from. The first level is the one
`Environment` asks for. Setters, the clock and sinks act between the steps.

**StringPiece** (of both libraries, with `procname()` and `SourceFile`), **Calendar**
(dates, and time zones from the file on), **Timestamp**, **SmallFile** (what the
reads of a file yield that changes between them), **LogStream** (which extends
FixedBuffer) and **SLog** are operators and recursive functions. **Values** asks them
one question per behaviour: its constants are the arguments there are, its ASSUMEs
say what the callers keep to, its invariants are what every answer must satisfy.
**MCValues** has the arguments TLC tries.

## Runs

| run | instance | what it shows |
|---|---|---|
| `logger` | 5 lines of 1, 2 or 3 bytes, buffers of 3 bytes, batches above 2 buffers dropped | `InOrderOnce`, `NothingVanishes`, `DropsAreAnnounced`, `AssertionsHold`, `ImplementsChannel`; under fairness `EventuallySettled` and `CallsReturn` |
| `log_file` | 3 lines, seconds 1 to 4, days of 4, roll size 3, a look at the clock every 2nd line; in a behaviour either the clock is set back, at will, or the disk is full once | `NamesIncrease`, `CrashLosesOnlyATail`, `BoundedStaleness`, `DayBoundary`, `ImplementsSink` |
| `queue` | 4 threads, 2 places, 4 elements | `NoElementSleptOn`, `NoPlaceSleptOn`; under fairness `HeadIsTaken` and `ImplementsUnbounded` |
| `time_take` | 2 threads | finding: timeTake() of an empty queue never returns |
| `latch` | 2 waiters, a count of 2, 3 counters | `NoEarlyReturn`, `NobodySleepsOnOpenLatch`, `NoFalseClaim`, `ImplementsLatch` (with its fairness) |
| `mutex_holder` | the same | finding: after wait() the holder is not recorded |
| `pool` | 2 workers, 2 clients, 1 place, 3 tasks | `RunInOrder`, `NobodySleepsOn`; under fairness `QueuedTaskRuns`, `FullQueueMoves` and `StopReturns` |
| `process` | 1 object, 2 callers, 3 descriptors | `PointersAlive`, `NoHandleLeaks`, `ReleasedOnce`, `RightWhenAlone` |
| `front_end` | 2 threads, 3 lines, 2 seconds, 2 changes of settings, 3 sinks, DEBUG (asked for by the environment) and FATAL | `TimeIsCurrent`, `TidIsOfAContemporary`, `FlushedBeforeAbort` |
| `fatal` | the same with nothing asked for by the environment | finding: a FATAL line given to AsyncLogging is lost |
| `values` | pieces up to 4 bytes over 2 letters; every day of 1900..2500; seconds on 48,000 days around 1970 and around 4 changes of summer time in 3 zones; -111..111 and the ends of 32 bits; streams of up to 3 operations; up to 3 nested handlers; 15 zone files cut anywhere; files of up to 4 bytes that grow at each of 4 reads | `PiecesAgree`, `TimesAgree`, `LocalRoundTrip`, `TablesAsWritten`, `ReadsArePrefixes`, `IntegersAreWritten`, `LinesEnd`, `HandlersNest` |
| `rfind` | the same | finding: rfind() of an absent byte reads below the piece |

**Why the bounds are enough.** Three bytes per buffer make a line that shares a
buffer, one that fills it (one byte always stays free) and one that fits in none.
Five lines fill a third buffer before the backend has swapped, which is what a drop
takes with a threshold of two (the code's is 25; the spares and `resize(2)` are the
code's), and leave lines before and after it. Days of four seconds, from the second
1, 2, 3 or 4 on, put rolls by size, by day and by neither next to each other, with
the clock ticking inside a call, and leave two ticks within a day for a flush that
is due. A behaviour has one kind of mishap (`faults`), a clock that is set back or a
disk that is full: the two meet in no statement of `LogFile`, and what is claimed of
one is not claimed of the other; the theorems allow both at once. Three lines make
one roll by size, or a flush, with a line before and one behind it, and rolls from
outside or by day make more files. Two waiters are the fewest of whom one could be
woken and the other not. Thread objects share nothing,
so one is enough; two callers are the fewest that overlap, and three descriptors let
both scans and a file be open, or one find none free. `MaxCount` cuts off what calls
that overlap again and again could count to. Four threads on two places are the
fewest with sleepers on one condition and two awake on the other. With two workers,
one times out while the other is woken. Three lines in two threads make a thread
find its own cached second after another has logged.

**Fairness.** `logger`: the backend's enabled step is taken in the end and so are the
steps of a call of start() or stop() already begun: that is what the scheduler
gives a runnable thread; the wait is timed, so it ends. No one has to
append, start or stop. `queue` and `pool`: a thread that is ready gets the mutex in
the end and timed waits end; in `pool` spurious wakeups are assumed to cease,
because each starts the two seconds anew. `latch`: strong fairness for getting the
mutex, which is free again and again and not continuously; weak for the rest.

**Deadlock** is not checked where a program may rest: nobody has to append, the bounds
end every behaviour, and `put()` on a full queue waits for ever when no one takes.
The liveness properties say what must not rest.

**Violations.** Four runs show a disagreement between the code and its comments;
`PROJECT.json` quotes both. `timeTake()` ignores that its wait timed out;
`wait()` does not restore `holder_`, so `assertLocked()` fails after it; `~Logger()`
flushes a sink that need not be the one the line went to; three backward searches
run an unsigned index below zero.

## Proofs

The theorems hold for all values of the constants under the ASSUMEs next to their
declarations (buffer sizes are positive, a batch keeps at least two buffers, sets
of threads are finite where they are counted, model values are distinct). TLC
evaluates the assumptions in the runs. A proof has the form: an invariant, which
`Init` implies, every action keeps (a lemma each), and that implies the property;
a refinement has besides a lemma that maps each step to a step of the abstract
specification or to none.

* **AsyncLoggingProofs**. `IInv` says in whose hands the spare buffers are (`Spares`):
  the front end takes `nextBuffer_` only when it queues a full buffer, so a batch
  that cost the backend both spares has two buffers to replace them with.
  `AssertionsNeverFail` needs that, and the rest builds on it: a buffer that is taken
  over or taken back is empty. `NoLineVanishes` keeps the account of lines (in the
  file, the rest of the batch, `buffers_`, `currentBuffer_`, refused, dropped), and
  `LinesStayInOrder` its order, place by place (`Ordered`). `LoggerIsAChannel` maps
  each step to `LogChannel`: the backlog is the text of the rest of the batch, of
  `buffers_` and of `currentBuffer_`, concatenated; a swap regroups it and changes
  nothing. `DropsAnnounced` follows from the place every dropped line has its notice
  at, with a budget of lines that can still come between (`Announcements`), since a
  buffer has no more lines in it than bytes (`DenseBuffers`). That is so when no
  line is empty, the hypothesis of this theorem: `append()` would take a line of
  length 0, but `Logger` never hands one over, and any number fit in a buffer.
* **LogFileProofs**. `Sound` says which file was opened when (`Named`) and where the
  lines are (`Kept`): the newest in the last file, the older ones on the disk, none
  missing, and only the last file torn. A lemma for each of a line written, a flush
  and a roll keeps it, and `append()` composes them as the code does:
  `NamesNeverReused`, and, while the disk has room, `CrashKeepsAPrefix`. `Punctual`
  is about time: `startOfPeriod_` is the period of `lastRoll_`, the lines of the
  file lie between its opening and now, only the last `count_` of them may be of
  another day, and none that waits is older than `lastFlush_`: `LinesReachTheDisk`,
  `FilesKeepToTheirDay`. The second is where a roll can be refused: only in the
  second the file was opened, which is of the same day. `FilesAreASink` is the
  refinement to `LogSink`, with the full disk: only the last file has lines that are
  not on disk (`Settled`), so the concatenation of the files splits into what is
  durable and the rest of that file, and what a short write or a failed flush leaves
  of it is one of the outcomes `LogSink` allows.
* **LoggerProofs**. `LinesAreOnTime`: the text cached for a second that began after the
  zone was set is in that zone, and no cached second is one the clock never showed
  (`CachesCurrent`, `CachesTyped`). `IdsAreOfContemporaries`: whoever wrote `tid_` or
  `tidString_` since this constructor began is one of its peers (`IdsKnown`).
  `FatalLinesAreWritten`: a FATAL line is in its sink until `g_flush()` is called, and
  written afterwards if the two belong together (`FatalKept`).
* **ThreadPoolProofs**. `NotificationsSuffice` counts the workers awake against the
  tasks and the clients awake against the places, as for the queue, with workers
  that give up and leave. `TasksRunInOrder` ties the mutex to the one worker with a task.
* **BoundedBlockingQueueProofs**. `ElementsNotSleptOn`, `PlacesNotSleptOn`, by counting
  the consumers (producers) awake. `BoundedIsUnbounded` is the safety half of
  `ImplementsUnbounded`: `timeTake()` looks like a take, its timeout like a wakeup
  without a reason, and a wait for a place like nothing.
* **LatchOnMutexProofs**. `LatchIsALatch` is the refinement, statement by statement:
  whoever is in a critical section owns the mutex, so a waiter that has seen a count
  above zero still finds it there when it falls asleep, and between a decrement to
  zero and its notification, which counts as done, nobody can look or sleep. From it
  and an invariant of CountDownLatch follow `EarlyReturnImpossible` and
  `OpenLatchWakesAll`. The steps are steps of `MutexLock` too, whose invariant (who can
  own the pthread mutex and be recorded as holder at each place) gives
  `HolderIsNeverOutside` and `SectionsExclude`.
* **ProcessProofs**. `NoDanglingPointers`, `TidAssertion`, `HandlesAreReleased`,
  `NeverReleasedTwice` of `Thread`: the invariant ties the place of the owner of an
  object to that of its pthread (`HeldInStart`) and to what is left to do with its
  handle (`Accountable`). `ScansAreRight`: that a call is alone is kept by both sides
  (`AloneIsAlone`), so the others neither move `t_pids` nor the count; they push only to
  the vector of a call that is not over (`PointsToALiveCall`), so a call begins with
  an empty one. All are theorems of the
  process, beside any scans.
* The functions without state, in **LoggerProofs** too, since the front end makes its
  text with them; for any arguments `Values` allows (`QueriesAsked`):
  * `PiecesAgreeAlways`. Each search, past its early returns, is the first position
    that will do (`FindIs`, `FindFirstOfIs`, `FindFirstNotOfIs`), and a piece occurs
    where what is before and behind it complete it (`OccursJoins`). A search
    downwards is one upwards in the mirror, the last position being the first from the
    other end (`OccursMirrored`, `MirroredIs`). Both classes order pieces by the first
    byte at which they differ (`MemcmpIs`, `OrderIs`).
  * `TimesAgreeAlways`. `IsDay` writes a day number as a day of a year that begins in
    March, in its century, which every number is (`DayIs`) and by which
    `getYearMonthDay()` computes (`DateIs`). So the leap day is the last of its year, the
    next day is the next of the month, of the year or of the century (`NextDay`), and
    the months are as long as the calendar has them (`LengthIs`, `LeapIs`). Seconds
    and stamps are quotients and remainders of either sign (`SplitIs`, `QuotientIs`).
  * `LocalRoundTripAlways`. What counts is how many changes of time lie before a
    second: one number and no other (`AfterSome`, `AfterOnly`), which the search finds
    (`FindsType`), in UTC and in local time, as the changes keep their order there.
    `RoundTrip` compares the two numbers; they differ in the hour that comes twice,
    where `isDst` decides.
  * `TablesAsWrittenAlways`. A file that is cut has all its types and transitions, or
    no transitions (`ReadTables`); then the first type is all there is.
  * `ReadsArePrefixesAlways`. `Reading` is the loop's invariant: what is read is a
    prefix of the file at that moment, and the end only when it was seen.
  * `IntegersAreWrittenAlways`. Each turn of the loop brings the number nearer to zero,
    so the recursion over all ints has a solution (`DigitsExist`), whose digits denote
    the number (`DigitsDenote`); ten digits are enough (`TenDigits`).
  * `LinesEndAlways`. No operation moves the cursor to the end (`StreamedFits`); the last
    one, of one byte, is left out only when one byte is free (`LineFits`).
  * `HandlersNestAlways`, by induction from the last handler set to the first.
* **SequenceLemmas** has what these share: `FlattenSeq` of an empty sequence, of one more
  at the end, of two in a row; parts of sequences, and their mirror images; and
  that a recursion over `0 .. n` has a solution (`RecursionExists`), since TLA+ names
  the function a recursion defines by CHOOSE. The induction is done by
  taking the least number at which the claim fails, which exists because a set of
  naturals has a least element.

Every invariant and action property of the passing runs is proved. Only
model-checked: everything about liveness, with the fairness halves of
`ImplementsLatch` and `ImplementsUnbounded`. The provers know neither fairness nor
ENABLED.

## What is assumed, and what is not modelled

* Setters and plain flags (`g_*`, `running_`, `threads_` in ThreadPool::start) are read
  and written without locks. The models let such an access happen at any time, but
  whole: a data race on the shared pointer in `setTimeZone()` is outside them, and
  with it a zone set between the two reads for one new second (Logging.cc:109, 110).
  `LogFile::rollFile()` is public and takes no mutex: it is modelled as called while
  no other call runs, since one beside another is a data race on `file_`.
* The first `fopen()` of a `LogFile` succeeds: one that fails ends the process before
  there is anything to claim of it.
* `CurrentThread.h` makes one `tid_` and one `tidString_` per translation unit;
  Logger models those of Logging.cc.
* Memory is never exhausted. A full disk is one mishap in a file's life.
* An entry of `/proc` that is there throughout a scan is read once, one that comes
  or goes may be read: what POSIX has readdir() do.
* A zone file is one a zone compiler wrote, perhaps cut short: an index behind its
  types is outside the model. Microseconds per second are 10 in the runs, so that stamps fit
  TLC's integers; the theorem is for any number.
* A zone whose local times are taken there and back changes between standard time
  and summer time an hour ahead of it, not more often than every two hours.
* `SmallFile` models a file that changes in any way while it is read; what is claimed
  of the result is claimed of files that do not shrink.
* `ProcessInfo::numThreads()` takes the first "Threads:" of `/proc/self/status`, which
  can be in the name of the process, and `threadStat()` opens `.../state` where
  ProcessInfo.h names `.../stat`: both are answers of the kernel's text, which has
  no model.
* A task returns, or calls `execute()` and then blocks the pool, which the liveness
  properties of the pool except. An empty `std::function` as a task, a queue of size
  zero, and `copy()` from behind the end of a piece are outside the models.
* Texts, paths, errno, stack traces (Exception), the tests, the casts and marker
  classes, and `MyThreadPool.h` (never built) are left out: they keep no state and
  decide nothing.

## Plan

The order was: the logger and its channel first, since losing lines is what a
logger must not do; the file below it; the primitives it stands on, with the latch
refined down to the mutex; the pool and the queue; the front end; the functions;
then what surrounds them: process information, the files that are read, the disk
below the log file. Then the proofs, of the same parts in the same order, the
functions last. What is left is what the provers cannot do, which stays with TLC.
