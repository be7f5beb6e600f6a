SPECIFICATION Spec
CONSTANTS
    Labs = 2
    TenantOf <- TwoTenants
    MaxSessions = 1
    MaxNetworks = 1
    Rebuilds = 2
    Modes = {"snapshot", "rebuild"}
    PortGroup = {g1}
    Process = {p1, p2}
    None = None
    MaxTries = 1
    Budget <- AllFaults
    MaxRare = 1
INVARIANTS TypeOK TasksAreNeverLost RebuiltOnEmpty LabsApart
CHECK_DEADLOCK FALSE
