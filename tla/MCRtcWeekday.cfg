SPECIFICATION Spec
CONSTANTS
    FirstYear = 2017
    LastYear = 2017
    FirstWeekday = 1
    Bcds = {TRUE}
    Centuries = {TRUE}
CHECK_DEADLOCK FALSE
INVARIANT
    DowRight
