CONSTANTS
    MaxTokens = 4
    Logins = {r1, r2}
    Callers = {r1, r2}
    MaxAttempts = 2
    MaxCodes = 3
    MaxAccepted = 3
    Devices = {d1, d2}
    PinAttempts = 2
    MaxTries = 3
    Clerks = {r1, r2}
    MaxEntries = 2
    MaxVisits = 2
    MaxRotation = 2
    Calls = {r1, r2}
    Exits = {x1}
CHECK_DEADLOCK FALSE
SPECIFICATION AuthSpec
SYMMETRY Symmetry
INVARIANTS   AdjustmentInv DeviceInv
PROPERTIES SoloExact 
