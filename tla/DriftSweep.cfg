SPECIFICATION FairSpec
CONSTANTS
    Sweep = {s1, s2}
    None = None
    Gone = Gone
    Unread = Unread
    Beats = 4
    Budget <- Once
    MaxRare = 2
INVARIANTS TypeOK NeverOverlap
PROPERTIES RecordedDriftIsReal DriftIsShown
