\* Two calls at a time in one process of a machine with or without a tailnet.
SPECIFICATION ClientFairSpec
CONSTANTS
    p1 = p1
    p2 = p2
    t1 = t1
    t2 = t2
    Processes = {p1}
    Threads = {t1, t2}
    ProcessOf <- OneProcess
    Installations = {1, 2}
    Other = 0
    Devices = {0, 1, 2}
    Home = 0
    Tailnets = {TRUE, FALSE}
    Asked = {0, 3}
    MaxMoves = 2
    MaxFaults = 1
    Unknown = Unknown
INVARIANTS
    ClientTypeOK
    InstallationIsStable
PROPERTIES
    WhoAmIHeals
    EventuallyRegistered
