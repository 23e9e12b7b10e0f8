SPECIFICATION AggregatingSpec
CONSTANTS
    Series <- coreSeries
    Kind <- coreKind
    NamePtr <- coreName
    TagsHash <- coreTags
    Multiplier = 5
    HashSize = 8
    StripeCount = 2
    TableRoom = 1
    Half = 2
    Values = {1}
    NaN = NaN
    Passthrough = FALSE
    Capacity = 1
    Flushers = {w, c}
    MaxRecords = 3
INVARIANTS
    ExactlyOnce
    FlushCovers
    LastValueKept
    ValuesAddUp
    IInv
PROPERTY
    AbstractSpec
