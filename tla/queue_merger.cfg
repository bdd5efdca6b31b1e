SPECIFICATION Spec
CONSTANTS
    o1 = o1
    o2 = o2
    o3 = o3
    NoOp = NoOp
    Ops = {o1, o2}
    Batches <- TwoChunks
    Capacity = 2
    Priority <- NoSizes
    Work = 2
    Client = "merger"
    Keys = {"space", "q"}
    MaxKeys = 2
    Spurious = TRUE
INVARIANTS Ownership CancelTouchesLiveOps PermitConservation WaitForFinishedDrains
