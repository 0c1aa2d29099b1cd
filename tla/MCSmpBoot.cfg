SPECIFICATION Spec
CONSTANTS
    NumCpus = 3
    FreeFrames = {20, 21, 22}
    KvmmPages = 5
    Pages32 = 1048576
    MsInterval = 62500
INVARIANT
    StackInHigherHalf
