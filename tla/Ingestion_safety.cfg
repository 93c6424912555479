SPECIFICATION Spec
CONSTANTS
    None = None
    Author = {"a"}
    Event <- EventsFour
    BatchSize = 2
    SeenCapacity = 1
    ChannelCapacity = 2
    FutureSkew = 2
    MaxClock = 0
    MaxFailures = 3
    MaxCrashes = 1
    MaxLost = 1
CHECK_DEADLOCK FALSE
INVARIANTS
    TypeOK
    Agreement
    ServedIsCommitted
    IdleAgreement
    ReceivedNotLost
    DrainedOnShutdown
    ReadyMeansPersisting
PROPERTIES
    ListsOnlyAdvance
    ImplementsLists
