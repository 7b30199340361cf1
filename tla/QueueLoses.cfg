CONSTANTS
    N = 1
    Forbidden = {}
    Reused = {}
    Requests = {r1}
    MaxErrors = 0
    MaxCrashes = 0
    Records = {1, 2}
    Handlers = {r1}
    Layouts <- SmallLayouts
    NoSerial = none
    Nobody = nobody
    MaxFaults = 0
    Counts = {1}
    Twins = {}
    MaxReviews = 0
    MaxTrouble = 0
SPECIFICATION OfflineSpec
CHECK_DEADLOCK FALSE
INVARIANTS QueueKeeps
