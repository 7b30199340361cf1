CONSTANTS
    Lines = {l1}
    Recounts = {c1}
    Unknowns = {u1}
    Requests = {r1, r2}
    Offered = {"count", "sync", "approve", "reject", "delete", "edit", "verify", "unverify", "pause", "resume", "recount", "assigned", "completed", "cancelled", "result", "register", "resolve", "dismiss", "submit", "finalize"}
    Focuses = {{"count", "sync", "approve", "reject", "delete", "edit", "submit", "finalize", "pause", "resume"},
               {"sync", "approve", "reject", "edit", "verify", "unverify", "submit", "finalize"},
               {"sync", "reject", "approve", "recount", "assigned", "completed", "cancelled", "result", "submit", "finalize"},
               {"sync", "approve", "reject", "register", "resolve", "dismiss", "submit", "finalize"}}
    MaxVersion = 7
CHECK_DEADLOCK FALSE
SPECIFICATION FocusedSpec
SYMMETRY Symmetry
INVARIANTS TypeOK ClosedLinesLocked ClosedTotalsExact
PROPERTIES ClosedLinesFrozen RecountsTerminal
