CONSTANTS
    Lines = {l1}
    Recounts = {}
    Unknowns = {u1}
    Requests = {r1, r2}
    Offered = {"sync", "register", "submit", "finalize"}
    MaxVersion = 4
CHECK_DEADLOCK FALSE
SPECIFICATION Spec
INVARIANT FinalizeGate
