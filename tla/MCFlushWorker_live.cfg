SPECIFICATION LiveSpec
CONSTANTS
    Series <- smallSeries
    Kind <- smallKind
    NamePtr <- smallName
    TagsHash <- smallTags
    Multiplier = 5
    HashSize = 8
    StripeCount = 2
    TableRoom = 3
    Half = 4
    Values = {1}
    NaN = NaN
    Passthrough = TRUE
    Capacity = 1
    Flushers = {w}
    MaxRecords = 2
    Worker = w
    Stoppers = {s1, s2}
    NumExporters = 2
    Outcomes <- failingFirst
PROPERTIES
    ShutdownReturns
    EventuallyExported
CHECK_DEADLOCK FALSE
