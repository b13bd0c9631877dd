SPECIFICATION Spec
CONSTANTS
    n1 = n1
    n2 = n2
    host1 = host1
    bare2 = bare2
    fqdn2 = fqdn2
    Names = {n1, n2}
    NoName = NoName
    NoHost = NoHost
    HostIP = HostIP
    Procs = {p1}
    Hosts <- ThreeHosts
    Bare <- BareNames
    Fqdn <- FqdnNames
    DomainsOf <- GivenDomains
    Ports = {5432}
    Commands = {"deploy", "destroy", "freeze", "unfreeze", "clone", "push", "load",
                "route add", "route remove", "unexpose", "port open", "port close", "daemon"}
    CloneDomains = TRUE
    DaemonAlone = TRUE
    ServerAlone = TRUE
    MayFail <- AllFailures
    MaxIndex = 3
VIEW SeenOfPorts
INVARIANTS
    ForwardedOnce
    MadeForOwner
