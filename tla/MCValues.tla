------------------------------ MODULE MCValues ------------------------------
(* Arguments from small sets for the queries of Values.                     *)
EXTENDS Values

MCNpos == 7
MCSize == 12

\* Every piece of up to n bytes of two kinds.
MCBytes == {1, 2}
PiecesUpTo(n) == UNION {[1 .. k -> MCBytes] : k \in 0 .. n}
MCPieces == PiecesUpTo(4)
MCPatterns == PiecesUpTo(2)
MCPositions == 0 .. 4 \cup {MCNpos}

\* Every day of the years a Date is made for: [1900..2500].
MCDays == getJulianDayNumber(1900, 1, 1) .. getJulianDayNumber(2500, 12, 31)

\* Up to four changes to summer time and back, east and west of Greenwich.
Types(offset) ==
    << [gmtOffset |-> offset, isDst |-> FALSE],
       [gmtOffset |-> offset + 3600, isDst |-> TRUE] >>
Changes == << 6000000, 22000000, 37500000, 53500000 >>
ZoneFile(offset, n) ==
    [types |-> Types(offset), times |-> SubSeq(Changes, 1, n),
     indices |-> [k \in 1 .. n |-> 1 + (k % 2)]]
MCZoneFiles == {ZoneFile(offset, n) : offset \in {0 - 18000, 0, 20700}, n \in 0 .. 4}
MCZones == {readTimeZoneFile(file, ZoneReads(file)) : file \in MCZoneFiles}
MCMoments ==
    {Changes[k] + d : k \in 1 .. 4,
     d \in {0 - 7200, 0 - 3601, 0 - 3600, 0 - 1800, 0 - 1, 0, 1, 1800, 3599, 3600, 7200}}

MCNumbers == {0 - 2147483647 - 1, 0 - 2147483647, 2147483647, 1999999999,
              1000000000, 0 - 1000000000} \cup 0 - 111 .. 111

Operations == {[kind |-> "text", len |-> n] : n \in {1, 3, 6}}
                \cup {[kind |-> "integer", len |-> n] : n \in {1, 4}}
                \cup {[kind |-> "double", len |-> 3]}
MCStreams == UNION {[1 .. k -> Operations] : k \in 0 .. 3}

\* Files of up to 4 bytes that grow, or not, between reads.
GrowingSizes == {sizes \in [1 .. 4 -> 0 .. 4] : \A k \in 1 .. 3 : sizes[k] <= sizes[k + 1]}
MCSmallFiles == {file \in [opened : BOOLEAN, kind : {"regular", "directory", "unknown"},
                           sizes : GrowingSizes, fails : 0 .. 3] :
                   file.kind = "directory" => file.fails = 1}
MCMaxSizes == 0 .. 4

MCHandlers == {"NULL", "Default", "Mine", "Theirs"}
MCHandlerLists == UNION {[1 .. k -> MCHandlers] : k \in 0 .. 3}
=============================================================================
