SPECIFICATION ProcessSpec
CONSTANTS
    NULL = NULL
    Objects <- MCObjects
    Callers <- MCCallers
    Fds <- MCFds
    MaxCount = 3
INVARIANTS
    PointersAlive
    NoHandleLeaks
    RightWhenAlone
PROPERTIES
    ReleasedOnce
CHECK_DEADLOCK FALSE
