SPECIFICATION Spec
CONSTANTS
    x1 = x1
    x2 = x2
    NoHolder = NoHolder
    Execution = {x1, x2}
    LeaseTicks = 2
    KeptTicks = 3
    Requests = {"provision", "destroy"}
    MaxGen = 2
    MaxTries = 1
    MaxMissed = 1
    Budget <- ProcessDeaths
SYMMETRY Interchangeable
CONSTRAINT DeathsOrOne
INVARIANTS TypeOK CallIsCovered OneRequest ReportedIsTrue StateMatchesVms NoBuildForgotten
PROPERTY ImplementsLedger
