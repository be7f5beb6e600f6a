SPECIFICATION FairSpec
CONSTANTS
    Snap = {n1}
    Exec = {e1, e2}
    None = None
    Kept = Kept
    Owners = {TRUE, FALSE}
    MaxRetries = 1
    Budget <- AllFaults
    MaxRare = 2
INVARIANTS TypeOK ReadyIsThere NothingLeftBehind RevertIsVisible
PROPERTY BusyEnds
CHECK_DEADLOCK FALSE
