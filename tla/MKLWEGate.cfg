SPECIFICATION Spec
CONSTANTS
    Method = "MKNTRU_LWE"
    N = 32
    q = 181
    Q = 7681
    k = 2
    n = 1
    FreshMasks <- NarrowMasks
    Masks <- MCMasks
    FreshErrors <- LWEErrors
    BootErrors <- LWEErrors
    Keys <- BinaryKeys
    MaxFresh = 2
    MaxWires = 5
INVARIANTS TypeOK RotationOnCourse NandCorrect
CHECK_DEADLOCK FALSE
