SPECIFICATION Spec
CONSTANTS
    root = root
    child = child
    grandchild = grandchild
    tool = tool
    childTool = childTool
    model = model
    finish = finish
    childFinish = childFinish
    inspect = inspect
    g1 = g1
    g2 = g2
    NoParent = NoParent
    NoGeneration = NoGeneration
    Execution = {root, child, grandchild}
    Parent <- MCChain
    Activity = {tool, finish}
    Owner <- OwnedBelow
    Tool = {tool}
    Reconcile = {tool}
    Finishing = {finish}
    Generation = {g1}
    MaxAttempt = 1
    MaxRevision = 2
    MaxStop = 1
INVARIANTS
    CancellationSettles
CHECK_DEADLOCK FALSE
