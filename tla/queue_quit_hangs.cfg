SPECIFICATION Spec
CONSTANTS
    o1 = o1
    o2 = o2
    o3 = o3
    NoOp = NoOp
    Ops = {o1, o2}
    Batches <- TwoFiles
    Capacity = 2
    Priority <- TwoSizes
    Work = 1
    Client = "converter"
    Keys = {"q"}
    MaxKeys = 1
    Spurious = FALSE
PROPERTY QuitEnds
CHECK_DEADLOCK FALSE
