SPECIFICATION LiveSpec
CONSTANTS
    Sketches = {a, b}
    Values <- mixedValues
    Boundaries <- mixedBoundaries
    MaxBuckets = 3
    MaxIndex = 99
    MaxValues = 6
    MaxRounds = 4
INVARIANTS
    TypeOK
    ListInOrder
    CountsMatch
    Bounded
    QuantileIsRank
    BucketsBracket
PROPERTY
    LoopTerminates
CHECK_DEADLOCK FALSE
