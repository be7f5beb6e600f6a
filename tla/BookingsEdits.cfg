SPECIFICATION Spec
CONSTANTS
    Booking = {b1, b2}
    ClassSession = {}
    Templated = {b1}
    Ranges = {r1, r2}
    Existing = {r2}
    Clock = {c1}
    Request = {}
    Starts <- Later
    b1 = b1
    b2 = b2
    Lead = 1
    Length = 1
    Grace = 0
    LastTick = 5
    None = None
    MaxRare = 2
    Budget <- Edits
INVARIANT OnlyItsOwnTornDown
CONSTRAINT FewRare
CHECK_DEADLOCK FALSE
