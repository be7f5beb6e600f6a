SPECIFICATION Spec
CONSTANTS
    r1 = r1
    r2 = r2
    Ranges = {r1, r2}
    Vlans = {1, 2}
    Uplinks = {1}
    Mgmt = {1}
    Need <- Needs
    Free = Free
    External = External
    Foreign = Foreign
    MaxReads = 3
    Budget <- AllFaults
    MaxRare = 2
INVARIANTS TypeOK OneRangePerVlan HeldWhileUsed PortgroupsRecordedUnlessDropped AddressesOnceIfGone NewestReadCounts
CHECK_DEADLOCK FALSE
