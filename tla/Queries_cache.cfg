SPECIFICATION Spec
CONSTANTS
    NotFound = NotFound
    None = None
    r1 = r1
    r2 = r2
    p = p
    Pair = {p}
    Answer = {NotFound, near}
    Request = {r1, r2}
    Setup <- Setups
    Loaded <- LoadedNone
    MaxRevision = 4
INVARIANTS TypeOK AnswersCurrent EntriesMatchRevision PermitsAccounted
