SPECIFICATION Spec
CONSTANTS
    MemPages = 12
    RowBits = 4
    RowValues = 2
    MemoryMaps <- MCMemoryMaps
    Framebuffer = {11, 12, 13}
    Lapic = 20
    Trampoline = 2
    CpuCounts = {1, 2}
INVARIANTS
    InsideBitmap
    NoFrameTwice
    OnlyFreeMemory
    NoFrameLost
