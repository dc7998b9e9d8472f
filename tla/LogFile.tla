------------------------------ MODULE LogFile ------------------------------
(***************************************************************************)
(* LogFile (asynlog/LogFile.cc) on top of FileUtil::AppendFile: a sink     *)
(* that starts a new file when the current one is too long or the day has  *)
(* changed, and flushes every flushInterval_ seconds, but looks at the     *)
(* clock only every checkEveryN_ lines.  The calls of several threads are  *)
(* one after the other under mutex_, so each is one action.                *)
(*                                                                         *)
(* The clock is the system's: it ticks at any time, also between the two   *)
(* calls of time() one append() can make, and it can be set back.  Once in *)
(* a behaviour the disk can be full for a while.  A file is its name (the  *)
(* second in it; host and pid never change), its lines with the time each  *)
(* was appended and whether all of it was written, writtenBytes_ and what  *)
(* has left the stdio buffer for the disk, which stdio empties at any      *)
(* byte: a number of lines, and perhaps a part of the next one.            *)
(***************************************************************************)
EXTENDS Integers, Sequences, SequencesExt

CONSTANTS
    rollSize_, flushInterval_, checkEveryN_,
    kRollPerSeconds_,  \* a day
    LineLens,          \* the lengths in bytes a line can have
    Faults,            \* what can go wrong in a behaviour, a set for each kind of
                       \* them: "clock" can be set back, "disk" be full
    MaxTime,           \* bound: the last second of a behaviour
    MaxLines           \* bound: the lines appended in a behaviour

ASSUME LogFileAssumption ==
    /\ rollSize_ \in Nat /\ flushInterval_ \in Nat /\ checkEveryN_ \in Nat \ {0}
    /\ kRollPerSeconds_ \in Nat \ {0}
    /\ LineLens \subseteq Nat
    /\ MaxTime \in Nat \ {0} /\ MaxLines \in Nat

VARIABLES
    faults,          \* what can go wrong in this one
    clock,           \* what time() returns
    setBack,         \* history: the clock has been set back
    disk,            \* "fine", "full", or "freed" again
    count_,
    startOfPeriod_, lastRoll_, lastFlush_,
    aborted,         \* assert(fp_) has ended the process
    files,           \* all files opened; the last one is *file_
    lines            \* history: lines appended so far

timeVars == <<clock, setBack>>
rollVars == <<startOfPeriod_, lastRoll_, lastFlush_, aborted>>
vars == <<faults, timeVars, disk, rollVars, count_, files, lines>>

Period(t) == (t \div kRollPerSeconds_) * kRollPerSeconds_

\* AppendFile(filename)
NewFile(t) ==
    [name |-> t, lines |-> <<>>, writtenBytes |-> 0, onDisk |-> 0, torn |-> FALSE]

\* Whether a part of the next line of f can be on the disk with n whole ones.
Tearing(f, n) ==
    {t \in BOOLEAN : (t => n < Len(f.lines)) /\ (f.torn /\ n = f.onDisk => t)}

\* What a write, or stdio of its own accord, may have handed on of f to the
\* disk: more bytes than before, up to the end of a line or within the next.
HandedOn(f) ==
    UNION {{[f EXCEPT !.onDisk = n, !.torn = t] : t \in Tearing(f, n)} :
             n \in f.onDisk .. Len(f.lines)}

\* What is left of a line that was written in part.
Cut(line) == [line EXCEPT !.whole = FALSE]

\* The lines of f that are left when stdio keeps what it holds, or loses it, if
\* need be but for a part.
Left(f) ==
    {f.lines}
      \cup {ls \in {SubSeq(f.lines, 1, f.onDisk)} : ~ f.torn}
      \cup {Append(SubSeq(f.lines, 1, n), Cut(f.lines[n + 1])) :
              n \in {f.onDisk} \cap 0 .. Len(f.lines) - 1}

\* What a write that fails leaves of f.
Damaged(f) == UNION {{[g EXCEPT !.lines = ls] : ls \in Left(g)} : g \in HandedOn(f)}

AllOnDisk(f) == [f EXCEPT !.onDisk = Len(f.lines), !.torn = FALSE]

\* fflush(): the lines of f are all on disk.
Flushed(f) == IF disk = "full" THEN Damaged(f) ELSE {AllOnDisk(f)}

\* ~AppendFile(): fclose() takes away what it cannot write.
Closed(f) == {AllOnDisk(g) : g \in Flushed(f)}

RetryWhole(line) ==   \* (mutation: write(logline, remain))
    {<<>>, <<Cut(line)>>, <<Cut(line), line>>}

\* What the calls of write() in AppendFile::append() leave of a line when the
\* first is short: they go on behind what fwrite() has taken until nothing
\* remains or a call takes nothing, and stdio can lose what it has taken.
Rest(line) == {<<>>, <<Cut(line)>>, <<line>>}

\* writtenBytes_ counts all of a line, whatever became of it.
Counted(f, len) == [f EXCEPT !.writtenBytes = @ + len]
Taken(f, line, len) == [Counted(f, len) EXCEPT !.lines = Append(@, line)]
Behind(f, rest) == [f EXCEPT !.lines = @ \o rest]

\* AppendFile::append()
Written(f, line, len) ==
    UNION {HandedOn(g) :
             g \in {Taken(f, line, len)} \cup
                    IF disk = "full"
                    THEN {Behind(h, rest) :
                            h \in Damaged(Counted(f, len)), rest \in Rest(line)}
                    ELSE {}}

Replaced(fs, f) == Append(Front(fs), f)

\* LogFile(): the first rollFile(), at a time after the epoch; its fopen()
\* has not failed.
Init ==
    /\ faults \in Faults
    /\ clock \in 1 .. MaxTime /\ setBack = FALSE
    /\ disk = "fine"
    /\ count_ = 0
    /\ startOfPeriod_ = Period(clock)
    /\ lastRoll_ = clock /\ lastFlush_ = clock
    /\ aborted = FALSE
    /\ files = <<NewFile(clock)>>
    /\ lines = 0

-----------------------------------------------------------------------------
RollTwicePerSecond(t) == t >= lastRoll_           \* (mutation)

\* The test of rollFile(), so that no name is used twice.
MayRoll(t) == t > lastRoll_

\* (mutation) rollFile() that leaks the old AppendFile.
RollWithoutClose(fs, t) == {Append(fs, NewFile(t))}

\* file_.reset(new AppendFile): the old file is closed once the new one is open.
Rolled(fs, t) == {Append(Replaced(fs, f), NewFile(t)) : f \in Closed(Last(fs))}

\* rollFile() at its own reading t of the clock; fs are the files so far.  If
\* fopen() fails, assert(fp_) ends the process with fs as they are: nothing
\* is left that could read the variables.
rollFile(fs, t) ==
    \/ /\ MayRoll(t)
       /\ lastRoll_' = t /\ lastFlush_' = t /\ startOfPeriod_' = Period(t)
       /\ files' \in Rolled(fs, t)
       /\ UNCHANGED aborted
    \/ /\ MayRoll(t)
       /\ aborted' = TRUE
       /\ files' = fs
       /\ UNCHANGED <<lastRoll_, lastFlush_, startOfPeriod_>>
    \/ /\ ~ MayRoll(t)
       /\ files' = fs
       /\ UNCHANGED rollVars

\* What time() can return to rollFile() in a call that began at clock.
RollTimes == {t \in 1 .. MaxTime : t < clock => "clock" \in faults}

\* rollFile() from append_unlocked().
rolls(fs) ==
    \E t \in RollTimes :
        /\ rollFile(fs, t)
        /\ clock' = t /\ setBack' = (setBack \/ t < clock)

\* flush(), public or from append_unlocked().
flushed(fs) == {Replaced(fs, f) : f \in Flushed(Last(fs))}

CheckDayOnly(fs) ==   \* (mutation: the time to flush never comes)
    IF Period(clock) # startOfPeriod_
    THEN rolls(fs)
    ELSE files' = fs /\ UNCHANGED <<rollVars, timeVars>>

CheckFlushOnly(fs) ==   \* (mutation: a new day is not noticed)
    IF clock - lastFlush_ > flushInterval_
    THEN /\ lastFlush_' = clock
         /\ files' \in flushed(fs)
         /\ UNCHANGED <<startOfPeriod_, lastRoll_, aborted, timeVars>>
    ELSE files' = fs /\ UNCHANGED <<rollVars, timeVars>>

\* The look at the clock: a new day, or time to flush, or neither.
check(fs) ==
    \/ /\ Period(clock) # startOfPeriod_
       /\ rolls(fs)
    \/ /\ Period(clock) = startOfPeriod_
       /\ clock - lastFlush_ > flushInterval_
       /\ lastFlush_' = clock
       /\ files' \in flushed(fs)
       /\ UNCHANGED <<startOfPeriod_, lastRoll_, aborted, timeVars>>
    \/ /\ Period(clock) = startOfPeriod_
       /\ ~ clock - lastFlush_ > flushInterval_
       /\ files' = fs
       /\ UNCHANGED <<rollVars, timeVars>>

CheckIsDue(n) == n + 1 >= checkEveryN_

TooLong(f) == f.writtenBytes > rollSize_

\* append(): mutex_ is held throughout.  A file that is too long goes on
\* being too long, unchecked, when rollFile() refuses to start another.
append(len) ==
    /\ lines < MaxLines
    /\ lines' = lines + 1
    /\ \E f \in Written(Last(files), [id |-> lines + 1, at |-> clock, whole |-> TRUE], len) :
         LET fs == Replaced(files, f)
         IN  \/ /\ TooLong(f)
                /\ rolls(fs)
                /\ UNCHANGED count_
             \/ /\ ~ TooLong(f) /\ ~ CheckIsDue(count_)
                /\ count_' = count_ + 1
                /\ files' = fs
                /\ UNCHANGED <<rollVars, timeVars>>
             \/ /\ ~ TooLong(f) /\ CheckIsDue(count_)
                /\ count_' = 0
                /\ check(fs)
    /\ UNCHANGED disk

\* rollFile() called from outside.  It does not take mutex_, so the caller has
\* to see to it that no other call runs meanwhile.
roll ==
    /\ rollFile(files, clock)
    /\ UNCHANGED <<timeVars, disk, count_, lines>>

flush ==
    /\ files' \in flushed(files)
    /\ UNCHANGED <<timeVars, disk, rollVars, count_, lines>>

tick ==
    /\ clock < MaxTime
    /\ clock' = clock + 1
    /\ UNCHANGED <<setBack, disk, rollVars, count_, files, lines>>

setClockBack ==
    /\ "clock" \in faults
    /\ setBack' = TRUE
    /\ clock' \in 1 .. clock - 1
    /\ UNCHANGED <<disk, rollVars, count_, files, lines>>

diskFills ==
    /\ "disk" \in faults /\ disk = "fine"
    /\ disk' = "full"
    /\ UNCHANGED <<timeVars, rollVars, count_, files, lines>>

diskIsFreed ==
    /\ disk = "full"
    /\ disk' = "freed"
    /\ UNCHANGED <<timeVars, rollVars, count_, files, lines>>

Next ==
    /\ ~ aborted
    /\ UNCHANGED faults
    /\ \/ \E len \in LineLens : append(len)
       \/ flush \/ roll
       \/ tick \/ setClockBack \/ diskFills \/ diskIsFreed

Spec == Init /\ [][Next]_vars

-----------------------------------------------------------------------------
(* Properties. *)

Lines == [id : Nat, at : Nat, whole : BOOLEAN]
Files ==
    [name : Nat, lines : Seq(Lines), writtenBytes : Nat, onDisk : Nat, torn : BOOLEAN]

\* Every variable keeps its type (faults never changes); count_ stays below
\* checkEveryN_.
TypeOK ==
    /\ clock \in Nat /\ setBack \in BOOLEAN
    /\ disk \in {"fine", "full", "freed"}
    /\ count_ \in 0 .. checkEveryN_ - 1
    /\ startOfPeriod_ \in Nat /\ lastRoll_ \in Nat /\ lastFlush_ \in Nat
    /\ aborted \in BOOLEAN
    /\ files \in Seq(Files) /\ files # <<>>
    /\ lines \in Nat

\* No file name is ever used twice, even when the clock is set back: the
\* files of one process are named in the order they were written.
NamesIncrease ==
    \A j, k \in DOMAIN files : j < k => files[j].name < files[k].name

\* The ids of the lines a crash of the process at this moment leaves on disk,
\* and of those it leaves a part of.
Surviving ==
    UNION {{f.lines[k].id : k \in 1 .. f.onDisk} : f \in ToSet(files)}
InPart ==
    {f.lines[f.onDisk + 1].id : f \in {g \in ToSet(files) : g.torn}}

\* A crash, or a failed fopen(), loses only the newest lines: what is on disk
\* is everything up to some line and perhaps a part of the one after it, and
\* nothing behind that, whichever files were rolled in between, as long as the
\* disk has room.
CrashLosesOnlyATail ==
    disk = "fine" =>
        \E n \in 0 .. lines : Surviving = 1 .. n /\ InPart \subseteq {n + 1}

Current == Last(files)

\* A line waits in the stdio buffer at most flushInterval_ seconds, counted
\* up to the last line that still has checkEveryN_ - 1 lines after it.  This
\* does not hold for a file that is too long (the clock is no longer looked
\* at) nor after the clock was set back, the disk was full or the process has
\* ended.
BoundedStaleness ==
    setBack \/ disk # "fine" \/ aborted \/ TooLong(Current) \/
    LET ls == Current.lines
    IN  \A j \in Current.onDisk + 1 .. Len(ls) :
          \A k \in j .. Len(ls) - checkEveryN_ + 1 :
              ls[k].at - ls[j].at <= flushInterval_

\* Only the last checkEveryN_ lines of a file can be of another day than the
\* file is named for, as long as the clock is not set back.
DayBoundary ==
    setBack \/
    \A f \in ToSet(files) : \A k \in 1 .. Len(f.lines) - checkEveryN_ :
        Period(f.lines[k].at) = Period(f.name)

\* The files together implement the abstract sink: rolling is invisible, and
\* a disk that is full can cost the newest lines but puts none in twice or in
\* another order, however often a short write is continued.
Entries(f) == [k \in DOMAIN f.lines |-> [id |-> f.lines[k].id, whole |-> f.lines[k].whole]]
OnDisk(f) == SubSeq(Entries(f), 1, f.onDisk)
Sink == INSTANCE LogSink WITH
    handed <- lines,
    content <- FlattenSeq([k \in DOMAIN files |-> Entries(files[k])]),
    durable <- Len(FlattenSeq([k \in DOMAIN files |-> OnDisk(files[k])])),
    broken <- (disk # "fine")
ImplementsSink == Sink!Spec
=============================================================================
