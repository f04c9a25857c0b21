SPECIFICATION Spec
CONSTANTS
    plain = plain
    other = other
    late = late
    NoTurn = NoTurn
    Turn = {plain, other}
    Deferred = {}
    MaxGeneration = 2
    MaxLease = 2
    MaxStop = 1
    MaxRevision = 2
INVARIANTS
    LostWorkerFreesSession
CHECK_DEADLOCK FALSE
