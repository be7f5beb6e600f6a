SPECIFICATION FairSpec
CONSTANTS
    Labs = 2
    TenantOf <- OneTenant
    MaxSessions = 2
    MaxNetworks = 2
    Rebuilds = 2
    Modes = {"snapshot", "rebuild"}
    PortGroup = {g1}
    Process = {p1}
    None = None
    MaxTries = 1
    Budget <- AllFaults
    MaxRare = 1
INVARIANT NetworksKept
PROPERTY EveryLabEnds
CHECK_DEADLOCK FALSE
