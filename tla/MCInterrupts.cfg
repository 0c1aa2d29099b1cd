SPECIFICATION IrqSpec
CONSTANTS
    Sdts <- MCSdts
    Madts <- MCMadts
    LeftTables <- MCLeftTables
    CountValues = 5
    HeapItems = 4
    Wait = 2
INVARIANTS
    UnmaskedIsHandled
PROPERTIES
    CalibrationEnds
