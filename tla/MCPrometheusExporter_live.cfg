SPECIFICATION PLiveSpec
CONSTANTS
    Strings = {"a"}
    Series <- countAndGauge
    Kind <- fewKind
    NamePtr <- fewName
    TagsHash <- fewTags
    Multiplier = 5
    HashSize = 64
    StripeCount = 1
    TableRoom = 1
    Half = 4
    Values = {1}
    NaN = NaN
    Passthrough = FALSE
    Capacity = 1
    Flushers = {w}
    MaxRecords = 3
    Worker = w
    Stoppers = {s1}
    NumExporters = 2
    Outcomes <- failingFirst
    Prometheus = 2
    Distribution = FALSE
    Prefix <- noPrefix
    DefaultTags <- noTags
    Percentiles <- defaultPercentiles
    Boundaries <- fewBoundaries
INVARIANTS
    TextsInOrder
    ScrapesDistinct
PROPERTIES
    GaugesStay
    GaugesReachScrapes
CHECK_DEADLOCK FALSE
