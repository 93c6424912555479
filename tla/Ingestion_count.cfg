SPECIFICATION Spec
CONSTANTS
    None = None
    Author = {"a"}
    Event <- EventsTie
    BatchSize = 2
    SeenCapacity = 1
    ChannelCapacity = 1
    FutureSkew = 1
    MaxClock = 0
    MaxFailures = 1
    MaxCrashes = 1
    MaxLost = 1
CHECK_DEADLOCK FALSE
INVARIANTS
    PersistedCountExact
