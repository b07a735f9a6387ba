CONSTANTS
    N = 10
    L1Size = 1
    L2Size = 2
    RcMax = 3
    RcPerSector = 3
    Images <- AllImages
    MaxOps = 3
    MaxFaults = 1
    FaultFree = {}
    Names = {1, 2}
    MaxSnaps = 2
    Values = {1, 2}
    BNames = {"a", "b"}
    ActionLists <- SomeActions
    MergeLists <- SomeMerges
    TabSize = 2
    Bit = {1, 2}
    MaxBitmaps = 2
    Ops = {"create", "delete", "apply", "check", "bitmap", "write", "amend"}
    Amends <- SomeAmends
    ReadFaults = FALSE
    Cautious = TRUE
SPECIFICATION Spec
CHECK_DEADLOCK FALSE
INVARIANTS NoDangling NothingLeaks RepairMends  
 
