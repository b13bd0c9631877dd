SPECIFICATION Spec
CONSTANTS
    c1 = c1
    c2 = c2
    s1 = s1
    s2 = s2
    Names = {n1, n2}
    Clients = {c1, c2}
    Stores = {s1}
    StoreOf <- OneStore
    Nobody = Nobody
    NoName = NoName
    MayFail = {"get", "list", "exists", "insert", "generation", "update", "delete"}
    MaxWrites = 4
SYMMETRY NameAndClientSymmetry
INVARIANTS
    TypeOK
PROPERTIES
    NoLostUpdate
    ImplementsAtomicStore
