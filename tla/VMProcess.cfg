SPECIFICATION Spec
CONSTANTS
    Names = {n1, n2}
    NoName = NoName
    Jails = {n1, n2}
    JailOf <- OwnJail
    Procs = {p1, p2}
    MayFail <- AllFailures
    Crashes = TRUE
    PidReuse = FALSE
    MaxPid = 2
SYMMETRY ProcAndNameSymmetry
INVARIANTS
    TypeOK
    VMKeepsJail
PROPERTIES
    TouchesOwnVM
    StoppedIsGone
