SPECIFICATION FairSpec
CONSTANTS
    Names = {n1}
    NoName = NoName
    Procs = {p1}
    Chunks = 2
    MayFail <- AllFailures
    Crashes = TRUE
    MaxContents = 3
    Partial = Partial
INVARIANTS
    TypeOK
    ArchiveIsComplete
PROPERTIES
    CommandsReturn
    ImplementsAtomicArchive
