SPECIFICATION PagingSpec
CONSTANTS
    Fan = 32
    MemPages = 96
    FreeSets <- MCFreeSets
    LoaderFrames = {80, 81, 82, 83, 84, 85, 86, 87, 88, 89, 90, 91, 92}
    Kernel <- MCKernel
    Stack = 72
    PmmBitmap = 73
    Framebuffer <- MCFramebuffer
    Lapic = 140
    IoApic = 170
    Trampoline = 8
    VmmPages = 2
    VmmFirst = 1
    MaxThreads = 3
INVARIANTS
    SpacesFaithful
    TablesReachable
    TablesOwned
    UserKeptFromTables
    LowMemorySuffices
