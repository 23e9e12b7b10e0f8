SPECIFICATION LiveSpec
CONSTANTS
    Sizes <- threeSizes
    MaxLines = 3
    MaxBufferSize = 5
    InPlace = FALSE
    MaxBinds = 3
INVARIANTS
    TypeOK
    Batched
    ReachesThePath
PROPERTY
    Reconnects
