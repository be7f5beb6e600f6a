SPECIFICATION Spec
CONSTANTS
    x1 = x1
    x2 = x2
    NoHolder = NoHolder
    Execution = {x1, x2}
    LeaseTicks = 2
    KeptTicks = 3
    Requests = {"provision", "destroy", "stop", "start"}
    MaxGen = 3
    MaxTries = 1
    MaxMissed = 1
    Budget <- OtherFaults
SYMMETRY Interchangeable
CONSTRAINT OneFault
INVARIANTS CoveredUnlessAbandoned OneRequestUnlessRaced ReportedUnlessOverridden
PROPERTY MovesAlongMachine
