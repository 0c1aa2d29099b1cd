SPECIFICATION Spec
CONSTANTS
    Size = 13
    BSize = 2
    Leftover = {0, 1}
    Requests <- MCRequests
    Pointers <- MCPointers
INVARIANTS
    RegionsDisjoint
    UsedIsBounded
    ScanIsComplete
    FreeStaysInside
    ScanFindsFirstFit
PROPERTY
    ImplementsAllocator
