SPECIFICATION Spec
CONSTANTS
    NoThread = NoThread
    a = a b = b c = c
    Thread = {t1, t2, t3}
    Pubkey = {a, b, c}
    Job <- JobsUpdates
    Query <- QueriesWide
SYMMETRY ThreadSymmetry
CHECK_DEADLOCK FALSE
INVARIANTS TypeOK NoCircularWait IdsInBounds ListsMatchVersions QueriesShowWholeLists
