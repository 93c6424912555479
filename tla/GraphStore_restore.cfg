SPECIFICATION FairSpec
CONSTANTS
    NoThread = NoThread
    a = a b = b c = c
    Thread = {t1, t2}
    Pubkey = {a, b, c}
    Job <- JobsRestore
    Query <- QueriesAll
CHECK_DEADLOCK FALSE
INVARIANTS Mirror
PROPERTIES CallsReturn ImplementsPublishedGraph
