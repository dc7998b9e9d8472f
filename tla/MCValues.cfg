SPECIFICATION Queries
CONSTANTS
    npos <- MCNpos
    SIZE <- MCSize
    kMaxNumericSize = 5
    kBufferSize = 2
    kMicroSecondsPerSecond = 10
    Crash = Crash
    Bytes <- MCBytes
    Pieces <- MCPieces
    Patterns <- MCPatterns
    Positions <- MCPositions
    Days <- MCDays
    Zones <- MCZones
    ZoneFiles <- MCZoneFiles
    Moments <- MCMoments
    SmallFiles <- MCSmallFiles
    MaxSizes <- MCMaxSizes
    Numbers <- MCNumbers
    Streams <- MCStreams
    Handlers <- MCHandlers
    HandlerLists <- MCHandlerLists
INVARIANTS
    PiecesAgree
    TimesAgree
    LocalRoundTrip
    TablesAsWritten
    ReadsArePrefixes
    IntegersAreWritten
    LinesEnd
    HandlersNest
CHECK_DEADLOCK FALSE
