SPECIFICATION Spec
CONSTANTS
    Size = 8
    BSize = 2
    Leftover = {0}
    Requests = {2, 3}
    Strays <- MCStrays
    MaxRegions = 2
    PageSize = 4
    VPages = 4
    NumFrames = 4
    VLeftover = {0}
    StackPages = {1, 2}
INVARIANTS
    HeapDisjoint
    FramesOwned
