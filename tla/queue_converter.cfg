SPECIFICATION Spec
CONSTANTS
    o1 = o1
    o2 = o2
    o3 = o3
    NoOp = NoOp
    Ops = {o1, o2, o3}
    Batches <- ThreeFiles
    Capacity = 2
    Priority <- ThreeSizes
    Work = 1
    Client = "converter"
    Keys = {"space", "q"}
    MaxKeys = 2
    Spurious = FALSE
INVARIANTS LargestFirst NoWorkLost OnlyPauseCrashes
PROPERTY LeftAloneEnds
CHECK_DEADLOCK FALSE
