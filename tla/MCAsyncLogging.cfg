SPECIFICATION FairSpec
CONSTANTS
    SIZE = 3
    MessageLens <- MCMessageLens
    MaxBuffersToWrite = 2
    NoBuffer = NoBuffer
    MaxAppends = 5
INVARIANTS
    AssertionsHold
    InOrderOnce
    NothingVanishes
    DropsAreAnnounced
PROPERTIES
    ImplementsChannel
    EventuallySettled
    CallsReturn
CHECK_DEADLOCK FALSE
