CONSTANTS
    Items = {i1}
    Known = {}
    Workers = {w1}
    Loop = loop
    Absent = Absent
    MaxQty = 1
    MaxMoves = 2
    Calls = {c1, c2, c3}
    FailureThreshold = 2
    SuccessThreshold = 3
    MaxProbes = 2
    MaxDropped = 1
    Monitor = monitor
    Admin = admin
CHECK_DEADLOCK FALSE
SPECIFICATION ServicesSpec
INVARIANTS ServicesInv
PROPERTIES VarianceCurrent  Converges Recovers SyncFollows
