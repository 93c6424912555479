SPECIFICATION FairSpec
CONSTANTS
    None = None
    Author = {"a", "b"}
    Event <- EventsFuture
    BatchSize = 2
    SeenCapacity = 1
    ChannelCapacity = 1
    FutureSkew = 1
    MaxClock = 1
    MaxFailures = 1
    MaxCrashes = 1
    MaxLost = 1
CHECK_DEADLOCK FALSE
INVARIANTS
    NoFutureDated
PROPERTIES
    Convergence
