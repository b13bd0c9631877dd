SPECIFICATION Spec
CONSTANTS
    Names = {n1, n2}
    NoName = NoName
    Procs = {p1, p2}
    MayFail <- NoticedFailures
    Crashes = TRUE
    Tears = FALSE
    OverLeftovers = FALSE
    MaxKey = 3
SYMMETRY ProcAndNameSymmetry
INVARIANTS
    TypeOK
    BootsCleanImage
    HostKeyPerVM
