SPECIFICATION FairSpec
CONSTANTS
    dvm_enabled = TRUE
    MaxRequests = 1
    MaxFaults = 1
PROPERTIES EveryServiceSupervised
CHECK_DEADLOCK FALSE
