SPECIFICATION Spec
CONSTANTS
    Names = {n1, n2}
    NoName = NoName
    Procs = {p1}
    Commands = {"deploy", "destroy", "freeze", "unfreeze", "clone", "push", "load", "route"}
    Exclusive = TRUE
    MayFail <- AllFailures
    Crashes = TRUE
    MaxIndex = 3
    MaxSaves = 4
    MaxVMs = 1
SYMMETRY ProcAndNameSymmetry
INVARIANTS
    RowsHaveOwnNetwork
    RowsHaveOwnAddresses
PROPERTIES
    DataSurvives
