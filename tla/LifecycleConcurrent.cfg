SPECIFICATION Spec
CONSTANTS
    Names = {n1, n2}
    NoName = NoName
    Procs = {p1, p2}
    Commands = {"deploy", "destroy", "freeze", "unfreeze", "resize", "clone"}
    Exclusive = TRUE
    MayFail <- CleanedUpFailures
    Crashes = FALSE
    MaxIndex = 3
    MaxSaves = 4
    MaxVMs = 2
SYMMETRY ProcAndNameSymmetry
INVARIANTS
    TypeOK
    UniqueNetwork
    OneVMPerDisk
    VMKeepsItsResources
    StatusIsTrue
PROPERTIES
    FailedLeavesNothing
