SPECIFICATION Spec
CONSTANTS
    Cols = 3
    Rows = 2
    Keys <- MCKeys
    Config = 97
    MaxBytes = 2
INVARIANTS
    NothingAhead
    ModifiersTrackKeys
    TypedIsPrinted
