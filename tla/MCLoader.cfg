SPECIFICATION Spec
CONSTANTS
    Layouts <- MCLayouts
    Segments <- MCSegments
    ZoneSize = 8
    MaxEvents = 1
INVARIANTS
    TablesMapped
    EntryMapped
    KernelMemoryKept
PROPERTIES
    BootEnds
