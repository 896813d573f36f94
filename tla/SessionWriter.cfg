SPECIFICATION FairSpec
CONSTANTS
    Names = {a, b}
    Clients = {c1}
    NoName = NoName
    MaxNumber = 3
    ChanBound = 2
    MaxFaults = 2
INVARIANTS ReadsSeeEarlierRequests FlushIsDurable HealthSlotTruthful
PROPERTIES DiskNeverGoesBack SavesSettle
CHECK_DEADLOCK FALSE
