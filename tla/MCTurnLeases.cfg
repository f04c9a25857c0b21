SPECIFICATION Spec
CONSTRAINT AloneOrBoth
CONSTANTS
    plain = plain
    other = other
    late = late
    NoTurn = NoTurn
    Turn = {plain, late}
    Deferred = {late}
    MaxGeneration = 3
    MaxLease = 4
    MaxStop = 4
    MaxRevision = 6
INVARIANTS
    ActiveIsStoredHolder
    StopHolds
    CancelReachesHolder
    BindAdoptsOwnLease
    RootAndTurnEndAlike
    RunningTurnIsOwned
PROPERTIES
    StoppedTurnsStayDown
    WritesInLeaseOrder
    EndedTurnsStay
CHECK_DEADLOCK FALSE
