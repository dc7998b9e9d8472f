------------------------------- MODULE Logger -------------------------------
(***************************************************************************)
(* The front end (asynlog/Logging.h, Logging.cc): threads that make a      *)
(* Logger, write to its stream and destroy it, which hands the line to     *)
(* g_output and, when its level is FATAL, calls g_flush and aborts.  The   *)
(* text of the line is what LogStream makes of it; here a line is where    *)
(* its parts came from.                                                    *)
(*                                                                         *)
(* What the threads share is plain: the settings, and in CurrentThread.h   *)
(* one tid_ and one tidString_ for all threads (static, not __thread),     *)
(* which every constructor writes and reads in four steps.  Only the last  *)
(* second and its text are per thread.                                     *)
(*                                                                         *)
(* A sink is what an OutputFunc writes to: a stdio stream, a LogFile, or   *)
(* an AsyncLogging.  It takes a line whole, buffers it, and writes it when *)
(* it likes; those in Flushable have a FlushFunc that writes them all.     *)
(***************************************************************************)
EXTENDS Integers, SequencesExt

CONSTANTS
    Thread, NoThread,
    Environment,    \* the names in the environment of the program
    Levels,         \* of TRACE = 0, ..., INFO = 2, ..., FATAL = 5
    Zone,           \* values of g_logTimeZone
    NoZone,         \* the TimeZone that is not valid()
    Sink, Flushable, Stdout,
    MaxLines,       \* bound: Loggers made
    MaxClock,       \* bound: last second
    MaxChanges      \* bound: calls of the setters

ASSUME LoggerAssumption ==
    /\ NoThread \notin Thread
    /\ NoZone \in Zone
    /\ Stdout \in Flushable /\ Flushable \subseteq Sink
    /\ Levels \subseteq 0 .. 5
    /\ MaxLines \in Nat /\ MaxClock \in Nat \ {0} /\ MaxChanges \in Nat

TRACE == 0
DEBUG == 1
INFO == 2
FATAL == 5

\* The first value of g_logLevel.
initLogLevel ==
    IF "MUDUO_LOG_TRACE" \in Environment THEN TRACE
    ELSE IF "MUDUO_LOG_DEBUG" \in Environment THEN DEBUG
    ELSE INFO

VARIABLES
    clock,          \* time(2), in seconds
    g_logLevel, g_logTimeZone, g_output, g_flush,
    t_lastSecond,   \* per thread
    t_time,         \* per thread: the second and the zone t_time was written for
    tid_,           \* the thread whose id it is
    tidString_,     \* the thread whose id it spells
    pc,             \* where each thread is in the life of its Logger
    line,           \* that Logger: its level, time and the parts of its text
    buffered, written,  \* lines in each sink, and those it has written
    latest,         \* history: the latest second the clock has shown
    changedAt,      \* history: that second when g_logTimeZone was last set
    peers,          \* history: threads inside a constructor at the same time
    made, changes   \* counted for the bounds

settings == <<g_logLevel, g_logTimeZone, g_output, g_flush>>
caches == <<t_lastSecond, t_time, tid_, tidString_>>
sinks == <<buffered, written>>
seen == <<latest, changedAt>>
vars == <<clock, settings, caches, pc, line, sinks, seen, peers, made, changes>>

-----------------------------------------------------------------------------
Constructing ==
    {"formatTime", "appendTime", "tid", "tidString", "tidLength", "operator<<"}

NoLine ==
    [level |-> INFO, second |-> 0, time |-> [second |-> 0, zone |-> NoZone],
     utc |-> FALSE, tid |-> NoThread, length |-> NoThread, sink |-> Stdout,
     flushed |-> Stdout]

Init ==
    /\ clock = 1
    /\ g_logLevel = initLogLevel /\ g_logTimeZone = NoZone
    /\ g_output = Stdout /\ g_flush = Stdout
    /\ t_lastSecond = [t \in Thread |-> 0]
    /\ t_time = [t \in Thread |-> [second |-> 0, zone |-> NoZone]]
    /\ tid_ = NoThread /\ tidString_ = NoThread
    /\ pc = [t \in Thread |-> "idle"]
    /\ line = [t \in Thread |-> NoLine]
    /\ buffered = [s \in Sink |-> <<>>] /\ written = [s \in Sink |-> <<>>]
    /\ latest = 1 /\ changedAt = 0
    /\ peers = [t \in Thread |-> {}]
    /\ made = 0 /\ changes = 0

Running == \A t \in Thread : pc[t] # "aborted"

at(t, from, to) == pc[t] = from /\ pc' = [pc EXCEPT ![t] = to]

-----------------------------------------------------------------------------
(* Logger::Logger() *)

\* LOG_INFO and below look at g_logLevel, LOG_WARN and above do not.
Enabled(level) == level > INFO \/ g_logLevel <= level

\* Impl::Impl(): Timestamp::now()
begin(t, level) ==
    LET inside == {u \in Thread \ {t} : pc[u] \in Constructing}
    IN  /\ made < MaxLines /\ made' = made + 1
        /\ Enabled(level)
        /\ at(t, "idle", "formatTime")
        /\ line' = [line EXCEPT ![t] = [NoLine EXCEPT !.level = level, !.second = clock]]
        /\ peers' = [u \in Thread |-> IF u = t THEN inside
                                      ELSE IF u \in inside THEN peers[u] \cup {t}
                                      ELSE peers[u]]
        /\ UNCHANGED <<clock, settings, caches, sinks, seen, changes>>

OnlyLater(t) ==   \* (mutation: seconds > t_lastSecond)
    line[t].second > t_lastSecond[t]

\* seconds != t_lastSecond
Outdated(t) == line[t].second # t_lastSecond[t]

\* Impl::formatTime(): the zone is looked at for a new second only.
formatTime(t) ==
    LET text == IF Outdated(t) THEN [second |-> line[t].second, zone |-> g_logTimeZone]
                ELSE t_time[t]
    IN  /\ at(t, "formatTime", "appendTime")
        /\ t_lastSecond' = [t_lastSecond EXCEPT ![t] = line[t].second]
        /\ t_time' = [t_time EXCEPT ![t] = text]
        /\ UNCHANGED <<clock, settings, tid_, tidString_, line, sinks, seen, peers,
                       made, changes>>

\* It looks at the zone again, in any case, for the 'Z' behind the microseconds,
\* and appends both.
appendTime(t) ==
    /\ at(t, "appendTime", "tid")
    /\ line' = [line EXCEPT ![t].time = t_time[t], ![t].utc = g_logTimeZone = NoZone]
    /\ UNCHANGED <<clock, settings, caches, sinks, seen, peers, made, changes>>

TidRemembered(t) ==   \* (mutation: gettid() only the first time)
    IF tid_ = NoThread THEN t ELSE tid_

\* tid_ = gettid()
NewTid(t) == t

\* CurrentThread::tid()
tid(t) ==
    /\ at(t, "tid", "tidString")
    /\ tid_' = NewTid(t)
    /\ UNCHANGED <<clock, settings, t_lastSecond, t_time, tidString_, line, sinks,
                   seen, peers, made, changes>>

\* The arguments of T(): tidString() and tidStringLength(), in any order; each
\* calls tidToString().
tidString(t) ==
    /\ at(t, "tidString", "tidLength")
    /\ tidString_' = tid_
    /\ line' = [line EXCEPT ![t].length = tid_]
    /\ UNCHANGED <<clock, settings, t_lastSecond, t_time, tid_, sinks, seen, peers,
                   made, changes>>

tidLength(t) ==
    /\ at(t, "tidLength", "operator<<")
    /\ tidString_' = tid_
    /\ \E length \in {line[t].length, tid_} : line' = [line EXCEPT ![t].length = length]
    /\ UNCHANGED <<clock, settings, t_lastSecond, t_time, tid_, sinks, seen, peers,
                   made, changes>>

\* The characters are copied from tidString_ only now.
appendTid(t) ==
    /\ at(t, "operator<<", "message")
    /\ line' = [line EXCEPT ![t].tid = tidString_]
    /\ UNCHANGED <<clock, settings, caches, sinks, seen, peers, made, changes>>

-----------------------------------------------------------------------------
(* Logger::~Logger() *)

Item(t) == [thread |-> t, level |-> line[t].level]

AfterOutput(t) ==
    IF line[t].level = FATAL THEN "flush" ELSE "idle"

\* finish(), g_output()
output(t) ==
    /\ at(t, "message", AfterOutput(t))
    /\ buffered' = [buffered EXCEPT ![g_output] = Append(@, Item(t))]
    /\ line' = [line EXCEPT ![t] = IF @.level = FATAL THEN [@ EXCEPT !.sink = g_output]
                                    ELSE NoLine]
    /\ peers' = [peers EXCEPT ![t] = {}]
    /\ UNCHANGED <<clock, settings, caches, written, seen, made, changes>>

AbortOnly(t) ==   \* (mutation: g_flush() not called)
    /\ at(t, "flush", "abort")
    /\ line' = [line EXCEPT ![t].flushed = g_flush]
    /\ UNCHANGED <<clock, settings, caches, sinks, seen, peers, made, changes>>

\* g_flush()
flush(t) ==
    /\ at(t, "flush", "abort")
    /\ written' = [written EXCEPT ![g_flush] = @ \o buffered[g_flush]]
    /\ buffered' = [buffered EXCEPT ![g_flush] = <<>>]
    /\ line' = [line EXCEPT ![t].flushed = g_flush]
    /\ UNCHANGED <<clock, settings, caches, seen, peers, made, changes>>

\* abort(): what is still in a buffer stays there.
abort(t) ==
    /\ at(t, "abort", "aborted")
    /\ UNCHANGED <<clock, settings, caches, line, sinks, seen, peers, made, changes>>

-----------------------------------------------------------------------------
(* The setters, the sinks and the clock. *)

\* g_logLevel = level, or one of the others.
Change(level, zone, out, flushFunc) ==
    /\ changes < MaxChanges /\ changes' = changes + 1
    /\ g_logLevel' = level /\ g_logTimeZone' = zone /\ g_output' = out /\ g_flush' = flushFunc
    /\ UNCHANGED <<clock, caches, pc, line, sinks, peers, made>>

setLogLevel == \E level \in Levels :
    Change(level, g_logTimeZone, g_output, g_flush) /\ UNCHANGED seen
setTimeZone == \E zone \in Zone :
    /\ Change(g_logLevel, zone, g_output, g_flush)
    /\ changedAt' = latest /\ UNCHANGED latest
setOutput == \E s \in Sink :
    Change(g_logLevel, g_logTimeZone, s, g_flush) /\ UNCHANGED seen
setFlush == \E s \in Flushable :
    Change(g_logLevel, g_logTimeZone, g_output, s) /\ UNCHANGED seen

\* A full stdio buffer, or the logger's own thread.
sinkWrites(s) ==
    /\ buffered[s] # <<>>
    /\ buffered' = [buffered EXCEPT ![s] = Tail(@)]
    /\ written' = [written EXCEPT ![s] = Append(@, Head(buffered[s]))]
    /\ UNCHANGED <<clock, settings, caches, pc, line, seen, peers, made, changes>>

\* The next second; or the clock is set, which is a change as well.
SetClock(second) ==
    /\ clock' = second
    /\ latest' = IF second > latest THEN second ELSE latest
    /\ UNCHANGED <<changedAt, settings, caches, pc, line, sinks, peers, made>>
tick == clock < MaxClock /\ SetClock(clock + 1) /\ UNCHANGED changes
setClockBack ==
    /\ clock > 1 /\ SetClock(clock - 1)
    /\ changes < MaxChanges /\ changes' = changes + 1

-----------------------------------------------------------------------------
Next ==
    /\ Running
    /\ \/ \E t \in Thread :
             \/ \E level \in Levels : begin(t, level)
             \/ formatTime(t) \/ appendTime(t)
             \/ tid(t) \/ tidString(t) \/ tidLength(t) \/ appendTid(t)
             \/ output(t) \/ flush(t) \/ abort(t)
       \/ setLogLevel \/ setTimeZone \/ setOutput \/ setFlush
       \/ \E s \in Sink : sinkWrites(s)
       \/ tick \/ setClockBack

Spec == Init /\ [][Next]_vars

-----------------------------------------------------------------------------
Complete == {t \in Thread : pc[t] \in {"message", "flush", "abort", "aborted"}}

\* The types; a complete line has the id of some thread, of some length.
TypeOK ==
    /\ clock \in 1 .. MaxClock /\ latest \in clock .. MaxClock /\ changedAt \in 0 .. latest
    /\ settings \in (Levels \cup {initLogLevel}) \X Zone \X Sink \X Flushable
    /\ t_lastSecond \in [Thread -> 0 .. latest]
    /\ \A t \in Thread : t_time[t] \in [second : {t_lastSecond[t]}, zone : Zone]
    /\ pc \in [Thread -> Constructing \cup {"idle", "message", "flush", "abort", "aborted"}]
    /\ \A t \in Complete : {line[t].tid, line[t].length, tid_, tidString_} \subseteq Thread
    /\ \A s \in Sink : {buffered[s], written[s]} \subseteq Seq([thread : Thread, level : Levels])
    /\ peers \in [Thread -> SUBSET Thread]

\* A complete line shows the second of its own time, whatever the clock did
\* since the thread's last line; and in the zone now set, with the 'Z' that
\* belongs to it, when the clock had never shown that second before the zone
\* was set.
TimeIsCurrent ==
    \A t \in Complete :
        /\ line[t].time.second = line[t].second
        /\ line[t].second > changedAt =>
             /\ line[t].time.zone = g_logTimeZone
             /\ line[t].utc = (g_logTimeZone = NoZone)

\* The thread id in a complete line, and the length T() asserts of it, are
\* those of its own thread or of one whose constructor ran at the same time:
\* alone, a thread logs under its own id and the assertion holds.
TidIsOfAContemporary ==
    \A t \in Complete : pc[t] = "message" =>
        {line[t].tid, line[t].length} \subseteq {t} \cup peers[t]

\* When the program has been aborted with g_flush belonging to g_output, the
\* FATAL line is written before the program ends.
FlushedBeforeAbort ==
    \A t \in Thread : pc[t] = "aborted" /\ line[t].flushed = line[t].sink =>
        Item(t) \in ToSet(written[line[t].sink])

\* "log level is FATAL and flush" (asynlog/Logging.cc:165): the line of the
\* thread that has aborted the program is written, wherever output goes.
FatalIsFlushed ==
    \A t \in Thread : pc[t] = "aborted" => Item(t) \in ToSet(written[line[t].sink])
=============================================================================
