CONSTANTS
    Lines = {l1}
    Recounts = {}
    Unknowns = {u1}
    Requests = {r1}
    Offered = {"count", "submit"}
    MaxVersion = 4
CHECK_DEADLOCK FALSE
SPECIFICATION Spec
INVARIANT CountRecorded
