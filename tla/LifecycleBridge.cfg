SPECIFICATION Spec
CONSTANTS
    Names = {n1, n2}
    NoName = NoName
    Procs = {p1, p2}
    Commands = {"deploy", "destroy"}
    Exclusive = TRUE
    MayFail <- NoFailures
    Crashes = FALSE
    MaxIndex = 3
    MaxSaves = 3
    MaxVMs = 2
INVARIANTS
    VMIsBridged
