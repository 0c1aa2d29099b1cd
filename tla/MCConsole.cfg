SPECIFICATION Spec
CONSTANTS
    APs = {ap1, ap2}
    BSP = bsp
    BodyParts = 2
    BootLogs = 2
INVARIANTS
    LinesIntact
    NoSelfDeadlock
PROPERTY
    LogLockReleased
