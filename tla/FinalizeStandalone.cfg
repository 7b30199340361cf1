CONSTANTS
    Lines = {l1, l2}
    Recounts = {c1}
    Unknowns = {}
    Requests = {r1, r2}
    Offered = {"count", "reject", "edit", "recount", "result", "submit", "finalize"}
    MaxVersion = 4
CHECK_DEADLOCK FALSE
SPECIFICATION Spec
SYMMETRY Symmetry
INVARIANTS CountsInv
PROPERTIES LockedAfterDecision 
