SPECIFICATION Spec
CONSTANTS
    Threads = {t1, t2, t3}
    NumCpus = 1
    NULL = NULL
    IDLE = IDLE
    BOOT = BOOT
    Quantum = 1
    Sleeps = {1, 2}
    MaxTicks = 2
    MaxCount = 0
    DebugReturn = FALSE
INVARIANTS
    ListsIntact
    ContextSavedToOwner
PROPERTIES
    DeadStayDead
    NoEarlyWake
    SleepersRun
    ReadyThreadsRun
