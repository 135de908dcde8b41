SPECIFICATION FairSpec
CONSTANTS
    a1 = a1
    a2 = a2
    ip = ip
    Config <- SomeConfigs
    Addr = {a1, a2}
    NoAddr = NoAddr
    Nil = Nil
    Public = {ip}
    MaxServers = 3
    MaxFaults = 1
INVARIANTS
    StatusTruthful
    NoStrayServer
PROPERTIES
    NoNeedlessRestart
    OutageReported
CHECK_DEADLOCK FALSE
