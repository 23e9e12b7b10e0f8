SPECIFICATION AggregatingSpec
CONSTANTS
    Series <- growingSeries
    Kind <- growingKind
    NamePtr <- growingName
    TagsHash <- growingTags
    Multiplier = 5
    HashSize = 8
    StripeCount = 1
    TableRoom = 3
    Half = 4
    Values = {1}
    NaN = NaN
    Passthrough = FALSE
    Capacity = 1
    Flushers = {w}
    MaxRecords = 5
INVARIANT LastWriterWins
