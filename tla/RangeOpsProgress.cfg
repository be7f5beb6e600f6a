SPECIFICATION FairSpec
CONSTANTS
    x1 = x1
    x2 = x2
    NoHolder = NoHolder
    Execution = {x1, x2}
    LeaseTicks = 2
    KeptTicks = 3
    Requests = {"provision", "destroy"}
    MaxGen = 2
    MaxTries = 0
    MaxMissed = 1
    Budget <- WorkerCrash
PROPERTIES EveryRequestEnds EveryLeaseEnds
