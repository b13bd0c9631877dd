SPECIFICATION Spec
CONSTANTS
    n1 = n1
    n2 = n2
    host1 = host1
    bare2 = bare2
    fqdn2 = fqdn2
    Names = {n1, n2}
    NoName = NoName
    NoHost = NoHost
    HostIP = HostIP
    Procs = {p1, p2}
    Hosts <- ThreeHosts
    Bare <- BareNames
    Fqdn <- FqdnNames
    DomainsOf <- GivenDomains
    Ports = {5432}
    Commands = {"deploy", "destroy", "freeze", "unfreeze", "clone", "load", "route add",
                "route remove", "unexpose", "port open", "port close", "daemon"}
    CloneDomains = FALSE
    DaemonAlone = TRUE
    ServerAlone = TRUE
    MayFail <- CleanedUpFailures
    MaxIndex = 2
SYMMETRY ProcSymmetry
VIEW Seen
INVARIANTS
    TypeOK
    ForwardsHaveOwner
    PortsMatchStore
    NameLeadsToOwner
    RecordedDomainWorks
    RoutesOfOneHost
    NameLeadsToVM
