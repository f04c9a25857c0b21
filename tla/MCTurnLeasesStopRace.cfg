SPECIFICATION Spec
CONSTANTS
    plain = plain
    other = other
    late = late
    NoTurn = NoTurn
    Turn = {plain, other}
    Deferred = {}
    MaxGeneration = 1
    MaxLease = 2
    MaxStop = 2
    MaxRevision = 2
INVARIANTS
    StopFreesSession
CHECK_DEADLOCK FALSE
