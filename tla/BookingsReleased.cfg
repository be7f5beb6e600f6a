SPECIFICATION FairSpec
CONSTANTS
    Booking = {b1, b2}
    ClassSession = {b2}
    Templated = {b1}
    Ranges = {r1, r2}
    Existing = {r2}
    Clock = {c1}
    Request = {q1}
    Starts <- Later
    b1 = b1
    b2 = b2
    Lead = 1
    Length = 1
    Grace = 0
    LastTick = 4
    None = None
    MaxRare = 1
    Budget <- Windows
PROPERTY ReleasedInTheEnd
CHECK_DEADLOCK FALSE
