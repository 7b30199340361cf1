SPECIFICATION Spec
CONSTANTS
    Sessions = {s1}
    Staff = {ann}
    Supervisors = {boss}
    Locations = {shelf}
    Requests = {r1, r2}
    None = None
    Transactional = FALSE
    MaxVersion = 4
    MaxEvents = 2
SYMMETRY Symmetry
INVARIANTS BaselineFirst
PROPERTIES FinalizedFrozen
