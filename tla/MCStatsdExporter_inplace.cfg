SPECIFICATION LiveSpec
CONSTANTS
    Sizes = {1}
    MaxLines = 1
    MaxBufferSize = 5
    InPlace = TRUE
    MaxBinds = 1
PROPERTY
    Reconnects
