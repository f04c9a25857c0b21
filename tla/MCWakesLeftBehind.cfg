SPECIFICATION Spec
CONSTANTS
    j1 = j1
    o1 = o1
    o2 = o2
    Job = {j1}
    Other = {o1, o2}
    Waking = {j1, o2}
    MaxFault = 1
    MaxTurn = 2
    MaxStop = 1
    WakeLimit = 1
INVARIANT BusyEventsAreRechecked
CONSTRAINT Box
CHECK_DEADLOCK FALSE
