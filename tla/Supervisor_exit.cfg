SPECIFICATION FairSpec
CONSTANTS
    dvm_enabled = TRUE
    MaxRequests = 2
    MaxFaults = 3
INVARIANTS TypeOK
PROPERTIES CleanExit FailureEndsProcess SignalEndsProcess
CHECK_DEADLOCK FALSE
