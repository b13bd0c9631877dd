SPECIFICATION FairSpec
CONSTANTS
    MaxChunks = 2
    PipeSize = 1
    MayStop = TRUE
INVARIANTS
    TypeOK
    OutputIsComplete
    StatusIsOfShell
PROPERTIES
    HostReturns
    HandlerEnds
    ReadersEnd
