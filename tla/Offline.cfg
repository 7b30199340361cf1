CONSTANTS
    N = 3
    Forbidden = {2}
    Reused = {1}
    Requests = {r1, r2}
    MaxErrors = 1
    MaxCrashes = 1
    Records = {1, 2}
    Handlers = {r1, r2}
    Layouts <- SmallLayouts
    NoSerial = none
    Nobody = nobody
    MaxFaults = 2
    Counts = {1, 2}
    Twins = {1, 2}
    MaxReviews = 2
    MaxTrouble = 2
SPECIFICATION OfflineSpec
CHECK_DEADLOCK FALSE
INVARIANTS AckedStored BatchInv   ReviewSettled
PROPERTIES ContentStable Delivered Drains
