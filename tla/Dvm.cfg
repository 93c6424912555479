SPECIFICATION DvmSpec
CONSTANTS
    NotFound = NotFound
    None = None
    r1 = r1
    r3 = r3
    Pair <- Keys
    Answer = {NotFound}
    Request = {r1, r3}
    Setup <- Setups
    Loaded <- LoadedOpposite
    MaxRevision = 2
    Server = r3
    Message <- Messages
    Pubkey = {"a", "b"}
    ChannelCapacity = 1
    DefaultHops = 4
    MaxHopsLimit = 5
INVARIANTS AnswersTheQuestion
PROPERTIES HeardIsHandled RequestsEnd
