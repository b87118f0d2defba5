SPECIFICATION Spec
CONSTANTS
    Method = "MKNTRU"
    N = 16
    q = 181
    Q = 7681
    k = 2
    n = 4
    Keys <- TernaryKeys
    FreshMasks <- FreshNTRUMasks
    Masks <- NTRUMasks
    FreshErrors <- NTRUErrors
    BootErrors <- NTRUErrors
    MaxFresh = 2
    MaxWires = 5
INVARIANT NandCorrect
CHECK_DEADLOCK FALSE
