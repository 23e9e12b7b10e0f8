SPECIFICATION LiveSpec
CONSTANTS
    Sketches = {a}
    Values <- twoValues
    Boundaries <- twoValues
    MaxBuckets = 1
    MaxIndex = 99
    MaxValues = 2
    MaxRounds = 4
PROPERTY
    LoopTerminates
CHECK_DEADLOCK FALSE
