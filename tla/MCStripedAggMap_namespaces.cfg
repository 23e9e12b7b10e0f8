SPECIFICATION AggregatingSpec
CONSTANTS
    Series <- collidingSeries
    Kind <- collidingKind
    NamePtr <- collidingName
    TagsHash <- noTags
    Multiplier = 5
    HashSize = 8
    StripeCount = 2
    TableRoom = 3
    Half = 2
    Values = {1}
    NaN = NaN
    Passthrough = FALSE
    Capacity = 1
    Flushers = {w}
    MaxRecords = 2
INVARIANT OwnSeries
