SPECIFICATION LiveSpec
CONSTANTS
    Threads = {m, t, u}
    Main = m
    Calls = {"init", "shutdown", "exporter", "panic"}
    MaxRecords = 2
INVARIANTS
    SingleClient
    FinalFlush
    AutomaticIfNotAsked
PROPERTIES
    ExitEnds
    PromiseSpec
CHECK_DEADLOCK FALSE
