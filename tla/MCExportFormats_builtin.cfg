SPECIFICATION AggregatingSpec
CONSTANTS
    Strings = {"a"}
    Series <- builtinSeries
    Kind <- builtinKind
    NamePtr <- builtinName
    TagsHash <- builtinTags
    Multiplier = 37
    HashSize = 4096
    StripeCount = 2
    TableRoom = 1
    Half = 2
    Values <- defaultValues
    NaN = NaN
    Passthrough = FALSE
    Capacity = 1
    Flushers = {w}
    MaxRecords = 2
    Distribution = FALSE
    Prefix <- prefix
    DefaultTags <- defaultTags
    Percentiles <- defaultPercentiles
    Boundaries <- fewBoundaries
INVARIANTS
    OwnSeries
    NoneMistaken
    LinesDistinct
