SPECIFICATION Spec
CONSTANTS
    Thread = {t1, t2}
    NoThread = NoThread
    Environment = {"MUDUO_LOG_DEBUG"}
    Levels <- MCLevels
    Zone = {NoZone, Beijing}
    NoZone = NoZone
    Sink = {Stdout, File, Async}
    Flushable = {Stdout, File}
    Stdout = Stdout
    MaxLines = 3
    MaxClock = 2
    MaxChanges = 2
INVARIANTS
    TimeIsCurrent
    TidIsOfAContemporary
    FlushedBeforeAbort
SYMMETRY Symmetry
CHECK_DEADLOCK FALSE
