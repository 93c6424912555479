SPECIFICATION Spec
CONSTANTS
    None = None
    Error = Error
    a = a b = b c = c
    Pubkey = {a, b, c}
    Batch <- Batches
    Empty <- Legacy
    MaxUnsynced = 2
    MaxFaults = 2
INVARIANTS TypeOK AlwaysLoads
PROPERTIES ImplementsListStore
