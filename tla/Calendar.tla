------------------------------ MODULE Calendar ------------------------------
(***************************************************************************)
(* Dates and time zones: the day numbers of Date (asynlog/Date.h, .cc),    *)
(* and TimeZone's conversions between seconds since 1970, UTC and local    *)
(* time (asynlog/TimeZone.cc).  A time zone is its tables: transitions in  *)
(* order of time, each with the local time it begins at and the index of   *)
(* its type in localtimes (from 1, from 0 in the code); a type is an       *)
(* offset east of UTC, and whether it is summer time.  What gmtime() makes *)
(* of local seconds is stood for by those seconds.                         *)
(***************************************************************************)
EXTENDS Integers, Sequences

\* / and % of C, for a positive divisor: rounded towards zero.
Quot(a, b) == IF a >= 0 \/ a % b = 0 THEN a \div b ELSE a \div b + 1
Rem(a, b) == a - b * Quot(a, b)

-----------------------------------------------------------------------------
(* Date *)

getJulianDayNumber(year, month, day) ==
    LET a == (14 - month) \div 12
        y == year + 4800 - a
        m == month + 12 * a - 3
    IN  day + (153 * m + 2) \div 5 + y * 365 + y \div 4 - y \div 100 + y \div 400 - 32045

getYearMonthDay(julianDayNumber) ==
    LET a == julianDayNumber + 32044
        b == (4 * a + 3) \div 146097
        c == a - (b * 146097) \div 4
        d == (4 * c + 3) \div 1461
        e == c - (1461 * d) \div 4
        m == (5 * e + 2) \div 153
    IN  [day   |-> e - (153 * m + 2) \div 5 + 1,
         month |-> m + 3 - 12 * (m \div 10),
         year  |-> b * 100 + d - 4800 + m \div 10]

weekDay(julianDayNumber) == (julianDayNumber + 1) % 7

-----------------------------------------------------------------------------
(* TimeZone: UTC *)

kJulianDayOf1970_01_01 == getJulianDayNumber(1970, 1, 1)
kSecondsPerDay == 24 * 60 * 60

NoBorrow(seconds) ==   \* (mutation: a time before 1970 keeps its day)
    [day |-> Quot(seconds, kSecondsPerDay), second |-> Rem(seconds, kSecondsPerDay) % kSecondsPerDay]

\* The day and the second in it; / and % are corrected before 1970.
Split(seconds) ==
    LET days == Quot(seconds, kSecondsPerDay)
        rest == Rem(seconds, kSecondsPerDay)
    IN  IF rest < 0 THEN [day |-> days - 1, second |-> rest + kSecondsPerDay]
        ELSE [day |-> days, second |-> rest]

toUtcTime(seconds) ==
    LET at == Split(seconds)
        julian == at.day + kJulianDayOf1970_01_01
        ymd == getYearMonthDay(julian)
    IN  [year |-> ymd.year, month |-> ymd.month, day |-> ymd.day,
         hour |-> at.second \div 3600, min |-> (at.second \div 60) % 60,
         sec  |-> at.second % 60,
         wday |-> weekDay(julian),
         yday |-> julian - getJulianDayNumber(ymd.year, 1, 1)]

fromUtcTime(utc) ==
    (getJulianDayNumber(utc.year, utc.month, utc.day) - kJulianDayOf1970_01_01)
        * kSecondsPerDay + utc.hour * 3600 + utc.min * 60 + utc.sec

-----------------------------------------------------------------------------
(* TimeZone: local time *)

\* readTimeZoneFile(): localtime is computed with the type that begins.
Transition(localtimes, gmttime, idx) ==
    [gmttime |-> gmttime, localtime |-> gmttime + localtimes[idx].gmtOffset,
     localtimeIdx |-> idx]

HeaderSuffices(file, n) ==   \* (mutation: before the types are read)
    n >= 1 + 2 * Len(file.times)

\* A file is its types, the times of its transitions and their indices; its
\* header counts as one read, each type as three.
TypesRead(file, n) == (n - 1 - 2 * Len(file.times)) \div 3
AllTypesRead(file, n) == TypesRead(file, n) >= Len(file.types)

\* readTimeZoneFile() of a file where n reads succeed, none if there is no
\* file: what has been stored before the exception stays, and it returns true
\* all the same, so that valid() holds.
readTimeZoneFile(file, n) ==
    [localtimes |->
         SubSeq(file.types, 1, IF AllTypesRead(file, n) THEN Len(file.types) ELSE TypesRead(file, n)),
     transitions |->
         [k \in 1 .. IF AllTypesRead(file, n) THEN Len(file.times) ELSE 0 |->
              Transition(file.types, file.times[k], file.indices[k])]]

\* TimeZone(eastOfUtc, name)
FixedZone(eastOfUtc) ==
    [localtimes |-> << [gmtOffset |-> eastOfUtc, isDst |-> FALSE] >>, transitions |-> <<>>]

\* lower_bound() by gmttime or localtime, and one back when it found a later
\* transition.
LastTransition(data, key, t) ==
    CHOOSE k \in DOMAIN data.transitions :
        /\ data.transitions[k][key] <= t
        /\ k < Len(data.transitions) => data.transitions[k + 1][key] > t

findLocaltime(data, key, t) ==
    IF data.transitions = <<>> \/ t < data.transitions[1][key]
    THEN data.localtimes[1]
    ELSE data.localtimes[data.transitions[LastTransition(data, key, t)].localtimeIdx]

toLocalTime(data, seconds) ==
    LET local == findLocaltime(data, "gmttime", seconds)
    IN  [seconds |-> seconds + local.gmtOffset, isDst |-> local.isDst]

\* tm_hour and tm_min agree.
SameMinuteOfDay(a, b) ==
    (a % kSecondsPerDay) \div 60 = (b % kSecondsPerDay) \div 60

HackForgotten(data, tm) ==   \* (mutation)
    tm.seconds - findLocaltime(data, "localtime", tm.seconds).gmtOffset

\* An hour that comes twice: summer time is the first of the two.
fromLocalTime(data, tm) ==
    LET local == findLocaltime(data, "localtime", tm.seconds)
        tryTm == toLocalTime(data, tm.seconds - local.gmtOffset)
    IN  IF tm.isDst /\ ~ tryTm.isDst /\ SameMinuteOfDay(tryTm.seconds, tm.seconds)
        THEN tm.seconds - 3600 - local.gmtOffset
        ELSE tm.seconds - local.gmtOffset
=============================================================================
