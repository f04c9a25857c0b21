SPECIFICATION Spec
SYMMETRY Symmetry
CONSTRAINT Boxes
CONSTANTS
    root = root
    child = child
    grandchild = grandchild
    tool = tool
    childTool = childTool
    model = model
    finish = finish
    childFinish = childFinish
    inspect = inspect
    g1 = g1
    g2 = g2
    NoParent = NoParent
    NoGeneration = NoGeneration
    Execution = {root, child, grandchild}
    Parent <- MCChain
    Activity = {tool, model, finish, inspect, childTool, childFinish}
    Owner <- OwnedInTree
    Tool = {tool, inspect, childTool}
    Reconcile = {tool, childTool}
    Finishing = {finish, childFinish}
    Generation = {g1, g2}
    MaxAttempt = 2
    MaxRevision = 2
    MaxStop = 1
INVARIANTS
    TypeOK
    ResultOfLastAttempt
    TerminalSettled
    StopHolds
    CancellationCoversSubtree
    OutcomesAgree
    NoSilentReplay
    ReconcilingHasUncertain
PROPERTIES
    OutcomesStay
CHECK_DEADLOCK FALSE
