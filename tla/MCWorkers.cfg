SPECIFICATION Spec
CONSTRAINT SmallSessions
CONSTANTS
    e1 = e1
    e2 = e2
    e3 = e3
    s1 = s1
    Ensurer = {e1, e2, e3}
    Stopper = {s1}
    MaxGeneration = 3
    MaxFaults = 2
    MaxCancels = 1
    MaxCrashes = 2
INVARIANTS
    StopFindsListener
    SocketIsReachable
    ReplacementIsAlone
    LostWorkIsKept
PROPERTIES
    CallsReturn
CHECK_DEADLOCK FALSE
