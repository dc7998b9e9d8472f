------------------------------- MODULE Values -------------------------------
(***************************************************************************)
(* The functions without state, of LogStream, slog, ReadSmallFile, both    *)
(* StringPieces, Date, TimeZone and Timestamp: one query at a time, of one *)
(* of them, with arguments from the sets below; the properties compare the *)
(* answers with a definition, or with each other.                          *)
(***************************************************************************)
EXTENDS LogStream, SLog, SmallFile, StringPiece, Timestamp

CONSTANTS
    Bytes,          \* the bytes pieces are made of
    Pieces,         \* those that are searched
    Patterns,       \* those that are searched for
    Positions,      \* where a search begins
    Days,           \* Julian day numbers
    Zones,          \* the tables of time zones
    ZoneFiles,      \* files of time zones
    Moments,        \* seconds since 1970
    SmallFiles,     \* files as ReadSmallFile finds them
    MaxSizes,       \* how much of one is asked for
    Numbers,        \* ints
    Streams,        \* the operations of a statement on a LogStream
    Handlers,       \* what a program may hand SetLogHandler()
    HandlerLists    \* and the lists of what it does, one after the other

\* A position or a length is a size_type; npos is none.
ASSUME PiecesAssumption ==
    /\ Bytes \subseteq Int
    /\ Pieces \cup Patterns \subseteq Seq(Bytes)
    /\ \A p \in Pieces \cup Patterns : Len(p) < npos
    /\ Positions \subseteq Sizes

\* The day numbers of a Date are not negative.  (A microsecond is not a second.)
ASSUME TimesAssumption == Days \subseteq Nat /\ kMicroSecondsPerSecond > 1

LocalTypes == [gmtOffset : Int, isDst : BOOLEAN]

\* Standard time, and summer time an hour ahead of it, in turns, neither of
\* them shorter than two hours.
Alternates(zone) ==
    /\ zone.localtimes \in Seq(LocalTypes) /\ Len(zone.localtimes) = 2
    /\ zone.localtimes[2].gmtOffset = zone.localtimes[1].gmtOffset + 3600
    /\ ~ zone.localtimes[1].isDst /\ zone.localtimes[2].isDst
    /\ LET changes == zone.transitions
       IN  /\ changes \in Seq([gmttime : Int, localtime : Int, localtimeIdx : {1, 2}])
           /\ \A k \in DOMAIN changes :
                /\ changes[k] = Transition(zone.localtimes, changes[k].gmttime, 1 + (k % 2))
                /\ k > 1 => changes[k].gmttime - changes[k - 1].gmttime > 7200

ASSUME ZonesAssumption ==
    /\ Moments \subseteq Int
    /\ \A zone \in Zones : Alternates(zone)
    /\ \A file \in ZoneFiles :
         /\ file.types \in Seq(LocalTypes) /\ file.types # <<>>
         /\ file.times \in Seq(Int)
         /\ file.indices \in [DOMAIN file.times -> DOMAIN file.types]

\* A file that does not shrink while it is read.
Grows(file) ==
    /\ file.opened \in BOOLEAN /\ file.kind \in {"regular", "directory", "unknown"}
    /\ file.sizes \in Seq(Nat) /\ file.sizes # <<>> /\ file.fails \in Nat
    /\ \A j, k \in DOMAIN file.sizes : j <= k => file.sizes[j] <= file.sizes[k]

ASSUME SmallFilesAssumption ==
    /\ MaxSizes \subseteq Nat
    /\ \A file \in SmallFiles : Grows(file)

\* The ints of 32 bits.
ASSUME NumbersAssumption ==
    /\ Numbers \subseteq Int
    /\ \A v \in Numbers : 0 - 2147483647 - 1 <= v /\ v <= 2147483647

\* No number is as long as the room that is kept for it.
ASSUME StreamsAssumption ==
    /\ kMaxNumericSize \in Nat \ {0, 1}
    /\ \A ops \in Streams :
         /\ ops \in Seq([kind : {"text", "integer", "double"}, len : Nat])
         /\ \A k \in DOMAIN ops : ops[k].kind # "text" => ops[k].len < kMaxNumericSize

\* NullLogHandler is the library's own.
ASSUME HandlersAssumption == HandlerLists \subseteq Seq(Handlers) /\ "Null" \notin Handlers

VARIABLE query

-----------------------------------------------------------------------------
Nothing == query = [of |-> "nothing"]

askSearch ==
    \E p \in Pieces, s \in Patterns, pos \in Positions :
        query' = [of |-> "search", p |-> p, s |-> s, pos |-> pos]

askDay == \E day \in Days : query' = [of |-> "day", day |-> day]

askLocal ==
    \E zone \in Zones, t \in Moments :
        query' = [of |-> "local", zone |-> zone, t |-> t]

\* The reads of a zone's file, and one more that would have failed.
ZoneReads(file) == 1 + 2 * Len(file.times) + 3 * Len(file.types) + 1

\* A zone's file, whole or cut.
askZone ==
    \E file \in ZoneFiles : \E reads \in 0 .. ZoneReads(file) :
        query' = [of |-> "zone", file |-> file, reads |-> reads]

askFile ==
    \E file \in SmallFiles, asked \in BOOLEAN, maxSize \in MaxSizes :
        query' = [of |-> "file", file |-> file, asked |-> asked, maxSize |-> maxSize]

askInteger == \E v \in Numbers : query' = [of |-> "integer", v |-> v]

askLine == \E ops \in Streams : query' = [of |-> "line", ops |-> ops]

askHandlers == \E new \in HandlerLists : query' = [of |-> "handlers", new |-> new]

Ask ==
    /\ query.of = "nothing"
    /\ askHandlers \/ askSearch \/ askDay \/ askLocal \/ askInteger \/ askLine
         \/ askZone \/ askFile

Queries == Nothing /\ [][Ask]_query

-----------------------------------------------------------------------------
(* StringPiece *)

\* A search upwards finds the first position that will do, and of each two
\* neighbours one is of the set and one is not: the searches for a set, for
\* its complement and for a single byte never disagree about a position.
SearchesUpwards ==
    query.of = "search" =>
    LET p == query.p s == query.s pos == query.pos
        of == find_first_of(p, s, pos)
        notOf == find_first_not_of(p, s, pos)
    IN  /\ s # <<>> => find(p, s, pos) =
             First({i \in pos .. Len(p) : \E v \in {SubSeq(p, i + Len(s) + 1, Len(p))} :
                                            SubSeq(p, 1, i) \o s \o v = p})
        /\ of = First({findChar(p, s[k], pos) : k \in DOMAIN s} \cup {npos})
        /\ s # <<>> /\ pos < Len(p) => of # notOf /\ Least(of, notOf) = pos

\* A search downwards is the search upwards in the mirror; for a byte, as
\* long as there is one to be found.
SearchesDownwards ==
    query.of = "search" /\ query.s # <<>> =>
    LET p == query.p s == query.s pos == query.pos
        mirrored(last, answer) == IF answer = npos THEN npos ELSE last - answer
        from(n) == IF Len(p) < n THEN 0 ELSE Len(p) - n - Least(pos, Len(p) - n)
        of == find_first_of(Reverse(p), s, from(1))
        notOf == find_first_not_of(Reverse(p), s, from(1))
    IN  /\ rfind(p, s, pos) =
             mirrored(Len(p) - Len(s), find(Reverse(p), Reverse(s), from(Len(s))))
        /\ of # npos => find_last_of(p, s, pos) = {Len(p) - 1 - of}
        /\ notOf # npos => find_last_not_of(p, s, pos) = {Len(p) - 1 - notOf}

\* What is found can be cut out, what is consumed and what is left make the
\* piece, and a prefix is what find() finds at once.
PartsFit ==
    query.of = "search" =>
    LET p == query.p s == query.s pos == query.pos
        found == find(p, s, pos)
    IN  /\ found # npos => substr(p, found, Len(s)) = s /\ SubPiece(p, found, Len(s)) = s
        /\ starts_with(p, s) <=> find(p, s, 0) = 0
        /\ starts_with(p, s) <=> s \o Consume(p, s) = p
        /\ ends_with(p, s) <=> ConsumeFromEnd(p, s) \o s = p
        /\ pos <= Len(p) => SubSeq(p, 1, pos) \o substr(p, pos, npos) = p

\* The two classes order the same pieces the same way: a total order, where
\* a prefix comes first.  What is cut out between a mark and the last one is
\* what was put there, marks included: a program whose own name has
\* parentheses, and the name of a source file behind its directories.
OrdersAgree ==
    query.of = "search" =>
    LET p == query.p s == query.s
        order == Predicates(p, s)
        is == compare(p, s)
    IN  /\ order = [lt |-> is < 0, le |-> is <= 0, ge |-> is >= 0, gt |-> is > 0]
        /\ less(p, s) <=> is < 0
        /\ less(s, p) <=> is > 0
        /\ is = 0 <=> p = s
        /\ equal(p, s) <=> p = s
        /\ starts_with(p, s) => is >= 0
        /\ procname(<<3, 1>> \o p \o <<2, 3>> \o [k \in DOMAIN s |-> 3], 1, 2) = p
        /\ 1 \notin ToSet(s) => SourceFile(p \o <<1>> \o s, 1) = s /\ SourceFile(s, 1) = s

\* Searches, parts and comparisons of pieces agree with each other.
PiecesAgree == SearchesUpwards /\ SearchesDownwards /\ PartsFit /\ OrdersAgree

\* "Search range is [0..pos] inclusive.  If pos == npos, search everything."
\* (slog/stringpiece.cc:99)
StaysInRange ==
    query.of = "search" =>
        \A c \in Bytes :
            rfindChar(query.p, c, query.pos) \subseteq
                {npos} \cup {i \in 0 .. Len(query.p) : i <= query.pos /\ i < Len(query.p)}

-----------------------------------------------------------------------------
(* Calendar *)

IsLeap(year) == year % 4 = 0 /\ (year % 100 # 0 \/ year % 400 = 0)
DaysOfMonth(year, month) ==
    CASE month = 2 -> IF IsLeap(year) THEN 29 ELSE 28
      [] month \in {4, 6, 9, 11} -> 30
      [] OTHER -> 31

\* Day numbers and dates are the same days over [1900..2500], and the next
\* number is the next day of the calendar.
DayFollows(day) ==
    LET date == getYearMonthDay(day)
        next == getYearMonthDay(day + 1)
    IN  /\ getJulianDayNumber(date.year, date.month, date.day) = day
        /\ IF date.day < DaysOfMonth(date.year, date.month)
           THEN next = [date EXCEPT !.day = @ + 1]
           ELSE IF date.month < 12 THEN next = [date EXCEPT !.day = 1, !.month = @ + 1]
           ELSE next = [year |-> date.year + 1, month |-> 1, day |-> 1]

\* The days whose seconds fit in 32 bits.
SecondsOf(day) ==
    {(day - kJulianDayOf1970_01_01) * kSecondsPerDay + s : s \in {0, 3599, 86399}}

\* UTC and seconds are the same times, before and after 1970, and every
\* field is in its range.
UtcAgrees(day) ==
    \A s \in SecondsOf(day) :
        LET utc == toUtcTime(s)
        IN  /\ fromUtcTime(utc) = s
            /\ utc.hour \in 0 .. 23 /\ utc.min \in 0 .. 59 /\ utc.sec \in 0 .. 59
            /\ utc.day = getYearMonthDay(day).day
            /\ utc.yday \in 0 .. IF IsLeap(utc.year) THEN 365 ELSE 364

\* A timestamp is what its two fields say, before 1970 as well; from 1970 on
\* both are in their range, so that the formatted text is that of its second,
\* and the fields are ordered as the stamps are.
StampsAgree(day) ==
    \A s \in SecondsOf(day), u \in {0, 1, kMicroSecondsPerSecond - 1} :
        LET stamp == fromUnixTime(s, u)
            is == Fields(stamp)
            next == Fields(addTime(stamp, 1))
        IN  /\ fromUnixTime(is.seconds, is.microseconds) = stamp
            /\ timeDifference(addTime(stamp, u), stamp) = u
            /\ valid(stamp) =>
                 /\ is = [seconds |-> s, microseconds |-> u]
                 /\ secondsSinceEpoch(stamp) = s
                 /\ toFormattedString(stamp) = [tm |-> toUtcTime(s), microseconds |-> u]
                 /\ \/ is.seconds = next.seconds /\ is.microseconds < next.microseconds
                    \/ is.seconds < next.seconds

\* Not more than n days from the first of January 1970.
Near1970(day, n) == day - kJulianDayOf1970_01_01 \in 0 - n .. n

\* Day numbers, seconds, stamps and UTC are the same times, where they fit in
\* 32 bits.
TimesAgree ==
    query.of = "day" =>
        /\ DayFollows(query.day)
        /\ Near1970(query.day, 24000) => UtcAgrees(query.day)
        /\ Near1970(query.day, 2000) => StampsAgree(query.day)

\* Local time and back gives the same second, on both sides of a change and
\* in the hour that comes twice, where summer time is an hour ahead.
LocalRoundTrip ==
    query.of = "local" =>
        /\ fromLocalTime(query.zone, toLocalTime(query.zone, query.t)) = query.t
        /\ LET fixed == FixedZone(query.zone.localtimes[1].gmtOffset)
           IN  fromLocalTime(fixed, toLocalTime(fixed, query.t)) = query.t

\* Whatever was cut off a zone's file, every transition has its local time,
\* at the offset it was written with; and a time is converted as by the whole
\* file, or by its first type.  Only a file cut before that, or missing,
\* leaves nothing to convert by.
TablesAsWritten ==
    query.of = "zone" =>
    LET file == query.file
        n == Len(file.times)
        data == readTimeZoneFile(file, query.reads)
    IN  /\ IsPrefix(data.localtimes, file.types)
        /\ data.localtimes = <<>> <=> query.reads < 1 + 2 * n + 3
        /\ \A k \in DOMAIN data.transitions :
             LET t == data.transitions[k]
             IN  /\ t.localtimeIdx \in DOMAIN data.localtimes
                 /\ t.localtime = file.times[k] + data.localtimes[t.localtimeIdx].gmtOffset
        /\ data.localtimes # <<>> => \A t \in Moments :
             toLocalTime(data, t).seconds - t \in
                 {file.types[1].gmtOffset,
                  toLocalTime(readTimeZoneFile(file, ZoneReads(file)), t).seconds - t}

-----------------------------------------------------------------------------
(* ReadSmallFile *)

\* What is read without an error from a file that grows meanwhile is the file
\* as it was at one moment of the call, or its first maxSize bytes, and at
\* least as much as the size that is reported; what an error leaves is a
\* prefix too, or, when the file could not be opened, what was there before.
\* The buffer's terminator is inside the buffer.
ReadsArePrefixes ==
    query.of = "file" =>
    LET file == query.file
        old == <<0>>
        string == readToString(file, query.asked, query.maxSize, old)
        size == Len(string.content)
        buffer == readToBuffer(file)
    IN  /\ IF file.opened THEN string.content = Stretch(0, size) ELSE string.content = old
        /\ file.opened => size <= query.maxSize
        /\ string.err = "none" =>
             /\ size = query.maxSize \/ \E k \in DOMAIN file.sizes : size = file.sizes[k]
             /\ size >= Min({query.maxSize, string.fileSize})
        /\ Len(buffer.buf_) <= kBufferSize
        /\ buffer.err = "none" => buffer.buf_ = Stretch(0, buffer.size) \o <<0>>

-----------------------------------------------------------------------------
(* LogStream *)

\* The digits written for an integer denote it, without a leading zero, down
\* to the smallest, whose absolute value is no int.
IntegersAreWritten ==
    query.of = "integer" =>
    LET text == convert(query.v)
        n == Len(text.digits)
        sum[k \in 0 .. n] ==
            IF k = 0 THEN 0
            ELSE IF text.negative THEN 10 * sum[k - 1] - text.digits[k]
            ELSE 10 * sum[k - 1] + text.digits[k]
    IN  /\ n >= 1 /\ n + 2 <= 12
        /\ sum[n] = query.v
        /\ n > 1 => text.digits[1] # 0

\* Whatever is streamed, the cursor stays inside the buffer; the line loses
\* its newline only when the buffer is full to the last byte it can use.
LinesEnd ==
    query.of = "line" =>
    LET line == After(EmptyBuffer, query.ops \o finish(2, 1))
    IN  /\ line.length < SIZE
        /\ Len(query.ops) + 5 \notin ToSet(line.data) => line.length = SIZE - 1

-----------------------------------------------------------------------------
(* slog *)

\* Handlers nest: who hands every handler back that SetLogHandler() returned,
\* the last one first, has the one from before again, NULL included, so that
\* a message of each level ends as it did; and in between a FATAL message,
\* like a failed SLOG_CHECK, never returns.
HandlersNest ==
    query.of = "handlers" =>
    LET new == query.new
        n == Len(new)
        set[k \in 0 .. n] ==
            IF k = 0 THEN [log_handler_ |-> "Default", old |-> "NULL"]
            ELSE SetLogHandler(set[k - 1].log_handler_, new[k])
        back[k \in 0 .. n] ==   \* after n - k handlers are handed back
            IF k = n THEN set[n].log_handler_
            ELSE SetLogHandler(back[k + 1], set[k + 1].old).log_handler_
    IN  \A k \in 0 .. n :
            /\ back[k] = set[k].log_handler_
            /\ Finish(back[k], LOGLEVEL_FATAL) # "returns"
=============================================================================
