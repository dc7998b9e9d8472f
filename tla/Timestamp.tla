----------------------------- MODULE Timestamp -----------------------------
(* Timestamp (asynlog/Timestamp.h, .cc): microseconds since 1970, which are *)
(* the value itself here; / and % are C's and round towards zero.           *)
EXTENDS Calendar

CONSTANT kMicroSecondsPerSecond

ASSUME TimestampAssumption == kMicroSecondsPerSecond \in Nat \ {0}

valid(stamp) == stamp > 0
secondsSinceEpoch(stamp) == Quot(stamp, kMicroSecondsPerSecond)
fromUnixTime(t, microseconds) == t * kMicroSecondsPerSecond + microseconds

\* toString(): the two numbers that are printed.
Fields(stamp) ==
    [seconds |-> Quot(stamp, kMicroSecondsPerSecond),
     microseconds |-> Rem(stamp, kMicroSecondsPerSecond)]

\* toFormattedString(): gmtime_r(), which is what toUtcTime() computes too.
toFormattedString(stamp) ==
    [tm |-> toUtcTime(Fields(stamp).seconds), microseconds |-> Fields(stamp).microseconds]

\* addTime(), of a whole number of microseconds; timeDifference(), in them.
addTime(stamp, delta) == stamp + delta
timeDifference(high, low) == high - low
=============================================================================
